---- MODULE Spec2Model ----
(***************************************************************************)
(* Workout_Progress_Tracker: a verification model of                       *)
(*   - the useWorkoutData hook and FitnessAPI.getWorkouts (frontend),      *)
(*   - the backend response cache behind GET /api/workouts,                *)
(*   - the Hevy sync service (initialBackfill, incrementalSync),           *)
(*   - the muscle-group distribution, the volume and the estimated 1RM of  *)
(*     the tracker component,                                              *)
(*   - the session matcher of the backend (match quality),                 *)
(*   - the upload of workout files and the persistence of the tracker      *)
(*     component in localStorage,                                          *)
(*   - the token check of POST /api/health/ingest.                         *)
(* Each component has specifications of its own (SpecHook, SpecCache,      *)
(* SpecSync, SpecOverlap, SpecHandover, SpecMuscle, SpecVolume, SpecMatch, *)
(* SpecUpload, SpecPersist, SpecIngest); the variables of the other        *)
(* components stay at their initial values there.                          *)
(***************************************************************************)
EXTENDS Integers, Sequences, FiniteSets, Bags, TLC

VARIABLES
  \* ---- useWorkoutData (src/src/hooks/useWorkoutData.ts)
  phase,        \* "rendered" (first render done, effects pending) | "mounted" | "unmounted"
  days,         \* the `days` option of the current render
  autoRefresh,  \* the `autoRefresh` option of the current render
  refreshInterval, \* the `refreshInterval` option of the current render, in ms
  data,         \* useState data: NoData or a WorkoutsResponse
  loading,      \* useState loading
  error,        \* useState error: NoError or an Error
  lastUpdated,  \* useState lastUpdated: NoDate or a clock reading
  inflight,     \* requests issued by getWorkouts whose promise has not settled
  timers,       \* active setInterval handles: the days of the fetchData closure and the delay
  nextReq,      \* number of the next request issued
  clock,        \* the wall clock read by new Date()
  completed,    \* history: <<request id, outcome>> in completion order
  \* ---- the backend response cache behind GET /api/workouts (spec 4.6)
  cache,        \* cache key (days) -> entry: Empty or [computed_at, days]
  now,          \* the backend's clock, in ticks
  served,       \* history: the last response and what the cache held when it was asked for
  \* ---- the Hevy sync service (src/phase2_pi_tailscale_deploy_v2/api/src)
  hevy_workouts, \* table hevy_workouts: id -> NoRow or [present, updated_at, payload]
  hevy_events,   \* table hevy_events: the bag of rows inserted
  cursor,        \* meta row hevy_last_sync_iso: NoCursor or a timestamp
  backfill,      \* the running initialBackfill: its position and locals
  sync,          \* the running incrementalSync of each caller: position and locals
  syncClock,     \* the service's clock, read by new Date()
  hevyUpstream,  \* the upstream's log of workout events, oldest first
  \* ---- the tracker component (src/unnamed/part_000)
  workouts,             \* useState workouts: category -> list of WorkoutEntry
  muscleGroupOverrides, \* useState muscleGroupOverrides: exercise -> MuscleGroup
  uploadStatus,         \* useState uploadStatus: type and count
  memo,                 \* the useMemo values of the last render
  \* ---- the session matcher of the backend (spec 4.1)
  hevySessions,    \* the start of each logged training session, in minutes
  appleWorkouts,   \* the start of each biometric workout window, in minutes
  merged_workouts, \* the last merge: session -> its nearest window's gap and the match quality
  \* ---- workout files uploaded to the tracker component (src/unnamed/part_000)
  today,        \* the date new Date().toLocaleDateString("en-GB") gives
  lastFile,     \* history: the rows of the file uploaded last
  uploadsDone,  \* history: number of files uploaded
  \* ---- persistence of the tracker component (src/unnamed/part_000)
  hydrated,     \* useState hydrated
  localStorage, \* the item under STORAGE_KEY: NoItem or a text
  measurements, \* useState measurements
  progress,     \* useState progress
  savedAtStart, \* history: the item under STORAGE_KEY when the component mounted
  firstWrite,   \* history: the first text written under STORAGE_KEY since the mount
  \* ---- POST /api/health/ingest (index.js, src/unnamed/part_003)
  HEALTH_INGEST_TOKEN, \* process.env.HEALTH_INGEST_TOKEN
  health_ingest,       \* table health_ingest: the rows inserted, oldest first
  lastIngest           \* history: the last request, its response and the rows before it

hookVars == <<phase, days, autoRefresh, refreshInterval, data, loading, error, lastUpdated,
              inflight, timers, nextReq, clock, completed>>

cacheVars == <<cache, now, served>>

syncVars == <<hevy_workouts, hevy_events, cursor, backfill, sync, syncClock>>

muscleVars == <<workouts, muscleGroupOverrides, uploadStatus, memo>>

matchVars == <<hevySessions, appleWorkouts, merged_workouts>>

uploadVars == <<today, lastFile, uploadsDone>>

persistVars == <<hydrated, localStorage, measurements, progress, savedAtStart, firstWrite>>

ingestVars == <<HEALTH_INGEST_TOKEN, health_ingest, lastIngest>>

\* the upload, persistence and ingest components
restVars == <<uploadVars, persistVars, ingestVars>>

vars == <<hookVars, cacheVars, syncVars, hevyUpstream, muscleVars, matchVars, restVars>>

\* what an action of one component leaves alone: the other components
OutsideHook == UNCHANGED <<cacheVars, syncVars, hevyUpstream, muscleVars, matchVars, restVars>>
OutsideCache == UNCHANGED <<hookVars, syncVars, hevyUpstream, muscleVars, matchVars, restVars>>
OutsideSync == UNCHANGED <<hookVars, cacheVars, muscleVars, matchVars, hevyUpstream, restVars>>
OutsideMuscle == UNCHANGED <<hookVars, cacheVars, syncVars, hevyUpstream, matchVars, restVars>>
OutsideMatch == UNCHANGED <<hookVars, cacheVars, syncVars, hevyUpstream, muscleVars, restVars>>
OutsideTracker == UNCHANGED <<hookVars, cacheVars, syncVars, hevyUpstream, matchVars, ingestVars>>
OutsideIngest ==
  UNCHANGED <<hookVars, cacheVars, syncVars, hevyUpstream, muscleVars, matchVars,
              uploadVars, persistVars>>

----------------------------------------------------------------------------
\* Bounds of the model

\* requests the hook may issue in one run
MaxReq == 3

\* the last reading of the backend's clock
MaxTime == 5

\* clock ticks in one minute
TicksPerMinute == 2

\* non-empty pages the upstream serves to one job before it answers with an empty one
MaxPages == 2

\* records on one page the upstream serves
MaxPageLen == 2

\* events the upstream has to list for one incrementalSync
MaxEvents == 3

\* the last reading of the sync service's clock
MaxClock == 2

\* entries the workout history may hold
MaxHistory == 2

\* overrides the user keeps at one time
MaxOverrides == 1

\* training sessions in the history the matcher is given
MaxSessions == 2

\* biometric workout windows in the export the matcher is given
MaxWindows == 1

\* events in the upstream's log
MaxUpstream == 2

\* rows in hevy_events
MaxRecorded == 3

\* rows in one uploaded file
MaxFileRows == 2

\* files uploaded in one run
MaxUploads == 3

\* rows in health_ingest
MaxIngest == 2
----------------------------------------------------------------------------
\* useWorkoutData and FitnessAPI

\* null, for each of the three nullable pieces of state
NoData == [req |-> 0, days |-> 0, workouts |-> 0]
NoError == "null"
NoDate == 0

\* values of the `days` option (the default 90 and one other key)
DaysSet == {30, 90}

\* refreshInterval = 2 * 60 * 1000
DefaultRefreshInterval == 120000

\* the refreshInterval options of the model: the default and one minute
RefreshIntervals == {DefaultRefreshInterval, 60000}

\* number of workouts in a response: an empty history and a non-empty one
WorkoutCounts == {0, 1}

\* what FitnessAPI.request can throw: a non-ok status, or fetch / json() rejecting
RequestErrors == {"API error", "fetch failed"}

\* a query that never carries the refresh parameter
GetWorkoutsNoRefreshParam(d, refresh) ==
  {<<"days", d>>}

\* getWorkouts: URLSearchParams({days: days.toString(), ...(refresh && {refresh: '1'})})
GetWorkouts(d, refresh) ==
  {<<"days", d>>} \cup (IF refresh THEN {<<"refresh", "1">>} ELSE {})

\* fetchData up to its await: setLoading(true); setError(null); getWorkouts(days, forceRefresh)
FetchData(d, forceRefresh) ==
  /\ nextReq <= MaxReq
  /\ loading' = TRUE
  /\ error' = NoError
  /\ inflight' = inflight \cup
       {[id |-> nextReq, days |-> d, refresh |-> forceRefresh,
         query |-> GetWorkouts(d, forceRefresh)]}
  /\ nextReq' = nextReq + 1
  /\ clock' = clock + 1
  /\ UNCHANGED <<data, lastUpdated, completed>>

\* an interval effect that sets its timer without the cleanup of the one before
SetIntervalNoCleanup(auto, d, delay) ==
  IF auto THEN Append(timers, [days |-> d, delay |-> delay]) ELSE timers

\* the interval effect, after the cleanup of the one before: no timer when
\* autoRefresh is off, else the one setInterval sets
SetInterval(auto, d, delay) ==
  IF auto THEN <<[days |-> d, delay |-> delay]>> ELSE <<>>

\* the two effects of the first commit: the initial load and the interval
MountEffects ==
  /\ phase = "rendered"
  /\ phase' = "mounted"
  /\ FetchData(days, TRUE)
  /\ timers' = SetInterval(autoRefresh, days, refreshInterval)
  /\ UNCHANGED <<days, autoRefresh, refreshInterval>>
  /\ OutsideHook

\* refresh(): await fetchData(true)
Refresh ==
  /\ phase = "mounted"
  /\ FetchData(days, TRUE)
  /\ UNCHANGED <<phase, days, autoRefresh, refreshInterval, timers>>
  /\ OutsideHook

\* the setInterval callback: fetchData(true) of the closure that set the timer
IntervalTick ==
  /\ \E i \in 1..Len(timers) : FetchData(timers[i].days, TRUE)
  /\ UNCHANGED <<phase, days, autoRefresh, refreshInterval, timers>>
  /\ OutsideHook

\* a re-render with another `days`: fetchData changes, so both effects run again
\* (the interval's cleanup first)
ChangeDays ==
  /\ phase = "mounted"
  /\ \E d \in DaysSet \ {days} :
       /\ days' = d
       /\ FetchData(d, TRUE)
       /\ timers' = SetInterval(autoRefresh, d, refreshInterval)
  /\ UNCHANGED <<phase, autoRefresh, refreshInterval>>
  /\ OutsideHook

\* a re-render with another `autoRefresh`: the interval effect runs again
ChangeAutoRefresh ==
  /\ phase = "mounted"
  /\ autoRefresh' = ~autoRefresh
  /\ UNCHANGED refreshInterval
  /\ timers' = SetInterval(~autoRefresh, days, refreshInterval)
  /\ UNCHANGED <<phase, days, data, loading, error, lastUpdated, inflight,
                 nextReq, clock, completed>>
  /\ OutsideHook

\* a re-render with another `refreshInterval`: the interval effect runs again
ChangeRefreshInterval ==
  /\ phase = "mounted"
  /\ \E delay \in RefreshIntervals \ {refreshInterval} :
       /\ refreshInterval' = delay
       /\ timers' = SetInterval(autoRefresh, days, delay)
  /\ UNCHANGED <<phase, days, autoRefresh, data, loading, error, lastUpdated, inflight,
                 nextReq, clock, completed>>
  /\ OutsideHook

\* unmount: the interval effect's cleanup, clearInterval(interval)
Unmount ==
  /\ phase = "mounted"
  /\ phase' = "unmounted"
  /\ timers' = <<>>
  /\ UNCHANGED <<days, autoRefresh, refreshInterval, data, loading, error, lastUpdated, inflight,
                 nextReq, clock, completed>>
  /\ OutsideHook

\* fetchData after the await resolved: setData(workouts); setLastUpdated(new Date());
\* finally setLoading(false). State setters of an unmounted component do nothing.
FetchDataResolved(r, n) ==
  /\ r \in inflight
  /\ inflight' = inflight \ {r}
  /\ completed' = Append(completed, <<r.id, "ok">>)
  /\ clock' = clock + 1
  /\ IF phase = "mounted"
       THEN /\ data' = [req |-> r.id, days |-> r.days, workouts |-> n]
            /\ lastUpdated' = clock
            /\ loading' = FALSE
       ELSE UNCHANGED <<data, lastUpdated, loading>>
  /\ UNCHANGED <<error, phase, days, autoRefresh, refreshInterval, timers, nextReq>>

\* a catch block that also drops the earlier result: setData(null);
\* setLastUpdated(null)
FetchDataRejectedClearsData(r, e) ==
  /\ r \in inflight
  /\ inflight' = inflight \ {r}
  /\ completed' = Append(completed, <<r.id, "fail">>)
  /\ clock' = clock + 1
  /\ IF phase = "mounted"
       THEN /\ error' = e
            /\ loading' = FALSE
            /\ data' = NoData
            /\ lastUpdated' = NoDate
       ELSE UNCHANGED <<error, loading, data, lastUpdated>>
  /\ UNCHANGED <<phase, days, autoRefresh, refreshInterval, timers, nextReq>>

\* fetchData after the await rejected: setError(err); finally setLoading(false)
FetchDataRejected(r, e) ==
  /\ r \in inflight
  /\ inflight' = inflight \ {r}
  /\ completed' = Append(completed, <<r.id, "fail">>)
  /\ clock' = clock + 1
  /\ IF phase = "mounted"
       THEN /\ error' = e
            /\ loading' = FALSE
       ELSE UNCHANGED <<error, loading>>
  /\ UNCHANGED <<data, lastUpdated, phase, days, autoRefresh, refreshInterval, timers, nextReq>>

\* FitnessAPI.request settles: response.ok and json() give the payload
RequestOk ==
  /\ \E r \in inflight, n \in WorkoutCounts : FetchDataResolved(r, n)
  /\ OutsideHook

\* FitnessAPI.request throws: !response.ok, or fetch itself rejects
RequestFails ==
  /\ \E r \in inflight, e \in RequestErrors : FetchDataRejected(r, e)
  /\ OutsideHook

HookInit ==
  /\ phase = "rendered"
  /\ days \in DaysSet
  /\ autoRefresh \in BOOLEAN
  /\ refreshInterval = DefaultRefreshInterval
  /\ data = NoData
  /\ loading = TRUE
  /\ error = NoError
  /\ lastUpdated = NoDate
  /\ inflight = {}
  /\ timers = <<>>
  /\ nextReq = 1
  /\ clock = 1
  /\ completed = <<>>

HookNext ==
  \/ MountEffects
  \/ Refresh
  \/ IntervalTick
  \/ ChangeDays
  \/ ChangeAutoRefresh
  \/ ChangeRefreshInterval
  \/ Unmount
  \/ RequestOk
  \/ RequestFails


\* the defaults of the options: days = 90, autoRefresh = true
HookIdle == HookInit /\ days = 90 /\ autoRefresh = TRUE

----------------------------------------------------------------------------
\* The cache orchestrator of the backend, backend/app.py: modelled from its
\* design (spec 4.6) and its documentation, with the response's meta as
\* FitnessAPI declares it

\* "Reduced backend cache from 15 minutes -> 1 minute"
CacheTtlMinutes == 1

CacheTtl == CacheTtlMinutes * TicksPerMinute

\* the state EMPTY of a key
Empty == [computed_at |-> 0, days |-> 0]

\* FRESH: an entry whose age is below the TTL; otherwise EMPTY or STALE
Fresh(entry, t) == entry # Empty /\ t - entry.computed_at < CacheTtl

\* WorkoutsResponse.meta
Meta(entry) ==
  [fetched_at |-> entry.computed_at,
   cache_ttl_minutes |-> CacheTtlMinutes,
   days_requested |-> entry.days]

\* GET /api/workouts?days=d[&refresh=1] with a cache that ignores the flag
HandleWorkoutsNeverRefreshes(d, refresh) ==
  /\ IF Fresh(cache[d], now)
       THEN /\ served' = [days |-> d, refresh |-> refresh, asked_at |-> now,
                          before |-> cache[d], meta |-> Meta(cache[d])]
            /\ UNCHANGED <<cache, now>>
       ELSE /\ now < MaxTime
            /\ now' = now + 1
            /\ cache' = [cache EXCEPT ![d] = [computed_at |-> now', days |-> d]]
            /\ served' = [days |-> d, refresh |-> refresh, asked_at |-> now,
                          before |-> cache[d], meta |-> Meta(cache'[d])]

\* GET /api/workouts?days=d[&refresh=1]: a request without the flag that finds a
\* FRESH entry is answered from the cache; a forced refresh, or EMPTY / STALE, runs
\* the pipeline (which takes time: the upstream fetch) and replaces the entry.
HandleWorkouts(d, refresh) ==
  /\ IF ~refresh /\ Fresh(cache[d], now)
       THEN /\ served' = [days |-> d, refresh |-> refresh, asked_at |-> now,
                          before |-> cache[d], meta |-> Meta(cache[d])]
            /\ UNCHANGED <<cache, now>>
       ELSE /\ now < MaxTime
            /\ now' = now + 1
            /\ cache' = [cache EXCEPT ![d] = [computed_at |-> now', days |-> d]]
            /\ served' = [days |-> d, refresh |-> refresh, asked_at |-> now,
                          before |-> cache[d], meta |-> Meta(cache'[d])]

NoResponse == [days |-> 0, refresh |-> FALSE, asked_at |-> 0, before |-> Empty,
               meta |-> Meta(Empty)]

CacheInit ==
  /\ cache = [d \in DaysSet |-> Empty]
  /\ now = 1
  /\ served = NoResponse

WorkoutsRequest ==
  /\ \E d \in DaysSet, refresh \in BOOLEAN : HandleWorkouts(d, refresh)
  /\ OutsideCache

\* time passes between two requests
Tick ==
  /\ now < MaxTime
  /\ now' = now + 1
  /\ UNCHANGED <<cache, served>>
  /\ OutsideCache

CacheNext ==
  \/ WorkoutsRequest
  \/ Tick

----------------------------------------------------------------------------
\* The Hevy sync service: db.js, hevy.js, sync.js

\* null / undefined: an absent id, an absent timestamp
Null == "null"
NullTs == 0

\* a row that is not in hevy_workouts
NoRow ==
  [present |-> FALSE, updated_at |-> NullTs,
   payload |-> [id |-> Null, workout_id |-> Null, workoutId |-> Null, updated_at |-> NullTs]]

\* no meta row with key hevy_last_sync_iso
NoCursor == -1

\* getMeta's fallback in incrementalSync, "1970-01-01T00:00:00Z"
Epoch == 0

\* const pageSize=50, the pageSize asked of listWorkouts and getWorkoutEvents
PageSize == 50

\* ids of the upstream's workouts
Ids == {"w1", "w2"}

\* values of the column hevy_workouts.id (TEXT PRIMARY KEY admits NULL)
RowKeys == Ids \cup {Null}

\* callers of incrementalSync: POST /api/sync/hevy
SyncProcs == {"manual"}

\* workout records as the upstream lists them: the id under one of its three names,
\* and a record that carries no id at all
WorkoutShapes ==
  { [id |-> "w1", workout_id |-> Null, workoutId |-> Null, updated_at |-> 1],
    [id |-> Null, workout_id |-> "w2", workoutId |-> Null, updated_at |-> NullTs],
    [id |-> Null, workout_id |-> Null, workoutId |-> "w1", updated_at |-> 2],
    [id |-> Null, workout_id |-> Null, workoutId |-> Null, updated_at |-> 1] }

\* workout events as the upstream lists them
EventShapes ==
  { [type |-> "updated", workout_id |-> "w1", occurred_at |-> 2],
    [type |-> "deleted", workout_id |-> "w1", occurred_at |-> 3],
    [type |-> "created", workout_id |-> "w2", occurred_at |-> NullTs] }

\* what GET /v1/workouts/{id} answers: the workout, or a body without id and date
FullWorkouts(id) ==
  { [id |-> id, workout_id |-> Null, workoutId |-> Null, updated_at |-> 3],
    [id |-> Null, workout_id |-> Null, workoutId |-> Null, updated_at |-> NullTs] }

\* the pages of at most n records over S
RECURSIVE PagesUpTo(_, _)
PagesUpTo(S, n) ==
  IF n = 0 THEN {<<>>}
  ELSE LET shorter == PagesUpTo(S, n - 1)
       IN  shorter \cup {Append(p, x) : p \in {q \in shorter : Len(q) = n - 1}, x \in S}

\* a page the upstream may answer to a request for page number `page` of at most
\* `pageSize` records; past MaxPages it has nothing left
UpstreamPages(S, page, pageSize) ==
  IF page > MaxPages THEN {<<>>}
  ELSE {p \in PagesUpTo(S, MaxPageLen) : Len(p) <= pageSize}

\* getMeta(db, key, fallback)
GetMeta(fallback) == IF cursor = NoCursor THEN fallback ELSE cursor

\* const id=w.id||w.workout_id||w.workoutId
WorkoutIdOf(w) ==
  IF w.id # Null THEN w.id
  ELSE IF w.workout_id # Null THEN w.workout_id
  ELSE w.workoutId

\* INSERT INTO hevy_workouts ... ON CONFLICT(id) DO UPDATE
Upsert(rows, id, updated_at, payload) ==
  [rows EXCEPT ![id] = [present |-> TRUE, updated_at |-> updated_at, payload |-> payload]]

\* a delete event that leaves the row where it is
DeleteKeepsRow(rows, id) == rows

\* DELETE FROM hevy_workouts WHERE id=?
Delete(rows, id) == [rows EXCEPT ![id] = NoRow]

\* the transaction of initialBackfill with `break` in place of `continue`: the
\* records after one without an id are not stored
RECURSIVE BackfillTxStopsAtBadRecord(_, _)
BackfillTxStopsAtBadRecord(rows, ws) ==
  IF ws = <<>> THEN rows
  ELSE LET w == Head(ws)
           id == WorkoutIdOf(w)
       IN  IF id = Null
             THEN rows
             ELSE BackfillTxStopsAtBadRecord(Upsert(rows, id, w.updated_at, w), Tail(ws))

\* the transaction of initialBackfill:
\* for(const w of rows){ const id=...; if(!id) continue; stmt.run(id, w.updated_at||null, w) }
RECURSIVE BackfillTx(_, _)
BackfillTx(rows, ws) ==
  IF ws = <<>> THEN rows
  ELSE LET w == Head(ws)
           id == WorkoutIdOf(w)
       IN  IF id = Null
             THEN BackfillTx(rows, Tail(ws))
             ELSE BackfillTx(Upsert(rows, id, w.updated_at, w), Tail(ws))

\* the ids the records of a page carry
IdsOn(ws) == {WorkoutIdOf(ws[i]) : i \in 1..Len(ws)} \ {Null}

\* the records of a page that carry no id
BadOn(ws) == Cardinality({i \in 1..Len(ws) : WorkoutIdOf(ws[i]) = Null})

\* history of a job: it has handled no event of the workout, its last one was a
\* delete, its last one was followed by getWorkout, which answered `full`
NoEvent == [kind |-> "none", full |-> NoRow.payload]
Deleted == [kind |-> "deleted", full |-> NoRow.payload]
Fetched(full) == [kind |-> "fetched", full |-> full]

BackfillIdle ==
  [pc |-> "idle", page |-> 0,
   \* history of the job: pages served, length of the last one, ids seen on them,
   \* records without an id on them, whether listWorkouts threw
   served |-> 0, lastLen |-> 0, seen |-> {}, bad |-> 0, threw |-> FALSE]

SyncIdle ==
  [pc |-> "idle", since |-> Epoch, page |-> 0, newestSeen |-> Epoch, rest |-> <<>>,
   occurredAt |-> NullTs,
   \* history of the job: pages served, length of the last one, events listed,
   \* hevy_workouts as the job found it, the last event it handled of each workout
   served |-> 0, lastLen |-> 0, listed |-> 0,
   before |-> [i \in RowKeys |-> NoRow], last |-> [i \in Ids |-> NoEvent]]

\* a job that has returned: its locals are gone, how it ended is kept
Returned(idle, job) == [idle EXCEPT !.pc = job.pc]

\* no job is suspended at an await: the endpoints are called one after the other,
\* each once, the initial backfill before any incremental sync
NoJobRunning ==
  /\ backfill.pc # "awaitPage"
  /\ \A p \in DOMAIN sync : sync[p].pc \notin {"awaitEvents", "awaitWorkout"}

\* POST /api/sync/hevy/backfill: initialBackfill up to its first await
BackfillStart ==
  /\ NoJobRunning
  /\ backfill.pc = "idle"
  /\ \A p \in DOMAIN sync : sync[p].pc = "idle"
  /\ backfill' = [BackfillIdle EXCEPT !.pc = "awaitPage", !.page = 1]
  /\ sync' = [p \in DOMAIN sync |-> Returned(SyncIdle, sync[p])]
  /\ UNCHANGED <<hevy_workouts, hevy_events, cursor, syncClock>>
  /\ OutsideSync

\* the loop body with a loop that also ends at a page shorter than pageSize
BackfillPageEndsAtShortPage(ws) ==
  /\ backfill.pc = "awaitPage"
  /\ hevy_workouts' = BackfillTx(hevy_workouts, ws)
  /\ IF Len(ws) < PageSize
       THEN /\ cursor' = syncClock
            /\ backfill' = [backfill EXCEPT !.pc = "done",
                              !.served = @ + 1, !.lastLen = Len(ws),
                              !.seen = @ \cup IdsOn(ws), !.bad = @ + BadOn(ws)]
       ELSE /\ backfill' = [backfill EXCEPT !.page = @ + 1,
                              !.served = @ + 1, !.lastLen = Len(ws),
                              !.seen = @ \cup IdsOn(ws), !.bad = @ + BadOn(ws)]
            /\ UNCHANGED cursor
  /\ UNCHANGED <<hevy_events, sync, syncClock>>

\* listWorkouts(page,pageSize) resolved with `ws`: the body of the while loop, up to
\* the next await or, after an empty page, setMeta and the return
BackfillPage(ws) ==
  /\ backfill.pc = "awaitPage"
  /\ IF Len(ws) = 0
       THEN /\ cursor' = syncClock
            /\ backfill' = [backfill EXCEPT !.pc = "done",
                              !.served = @ + 1, !.lastLen = 0]
            /\ UNCHANGED hevy_workouts
       ELSE /\ hevy_workouts' = BackfillTx(hevy_workouts, ws)
            /\ backfill' = [backfill EXCEPT !.page = @ + 1,
                              !.served = @ + 1, !.lastLen = Len(ws),
                              !.seen = @ \cup IdsOn(ws), !.bad = @ + BadOn(ws)]
            /\ UNCHANGED cursor
  /\ UNCHANGED <<hevy_events, sync, syncClock>>

ListWorkoutsResolves ==
  /\ backfill.pc = "awaitPage"
  /\ \E ws \in UpstreamPages(WorkoutShapes, backfill.page, PageSize) : BackfillPage(ws)
  /\ OutsideSync

\* listWorkouts throws (assertKey, a non-ok status, the network): initialBackfill
\* rejects and the endpoint answers 500
ListWorkoutsThrows ==
  /\ backfill.pc = "awaitPage"
  /\ backfill' = [backfill EXCEPT !.pc = "failed", !.threw = TRUE]
  /\ UNCHANGED <<hevy_workouts, hevy_events, cursor, sync, syncClock>>
  /\ OutsideSync

\* ---- incrementalSync

\* type.toLowerCase().includes('delete')
IsDelete(type) == type \in {"deleted", "workout_deleted"}

\* the row insertEvent.run(type, workoutId, occurredAt, JSON.stringify(ev)) inserts
EventRow(ev, occurredAt) ==
  [event_type |-> ev.type, workout_id |-> ev.workout_id,
   occurred_at |-> occurredAt, raw |-> ev]

\* const occurredAt=ev.occurred_at||...||new Date().toISOString()
OccurredAt(ev) == IF ev.occurred_at # NullTs THEN ev.occurred_at ELSE syncClock

\* The for loop over the events of a page, from the event at the head of `rest`, as
\* far as it runs without suspending: up to the await of getWorkout (await = TRUE,
\* the event at the head of rest is the one being fetched) or to the end of the page.
RECURSIVE RunEvents(_, _, _, _, _)
RunEvents(rows, events, newestSeen, rest, last) ==
  IF rest = <<>>
    THEN [rows |-> rows, events |-> events, newestSeen |-> newestSeen,
          rest |-> <<>>, occurredAt |-> NullTs, await |-> FALSE, last |-> last]
    ELSE LET ev == Head(rest)
             occurredAt == OccurredAt(ev)
             inserted == events (+) SetToBag({EventRow(ev, occurredAt)})
             newest == IF occurredAt > newestSeen THEN occurredAt ELSE newestSeen
         IN  IF IsDelete(ev.type)
               THEN RunEvents(IF ev.workout_id # Null
                                THEN Delete(rows, ev.workout_id) ELSE rows,
                              inserted, newest, Tail(rest),
                              IF ev.workout_id # Null
                                THEN [last EXCEPT ![ev.workout_id] = Deleted] ELSE last)
               ELSE IF ev.workout_id # Null
                 THEN [rows |-> rows, events |-> inserted, newestSeen |-> newest,
                       rest |-> rest, occurredAt |-> occurredAt, await |-> TRUE,
                       last |-> last]
                 ELSE RunEvents(rows, inserted, newest, Tail(rest), last)

\* the state of incrementalSync after the loop ran as far as `run`: suspended at
\* getWorkout, or, at the end of the page, page++ and the next getWorkoutEvents
AfterRun(s, run) ==
  IF run.await
    THEN [s EXCEPT !.pc = "awaitWorkout", !.newestSeen = run.newestSeen,
                   !.rest = run.rest, !.occurredAt = run.occurredAt,
                   !.last = run.last]
    ELSE [s EXCEPT !.pc = "awaitEvents", !.newestSeen = run.newestSeen,
                   !.rest = <<>>, !.occurredAt = NullTs, !.page = @ + 1,
                   !.last = run.last]

\* POST /api/sync/hevy: incrementalSync up to its first await
SyncStart(p) ==
  /\ OutsideSync
  /\ NoJobRunning
  /\ sync[p].pc = "idle"
  /\ sync' = [sync EXCEPT ![p] =
       [SyncIdle EXCEPT !.pc = "awaitEvents", !.since = GetMeta(Epoch),
                        !.page = 1, !.newestSeen = GetMeta(Epoch),
                        !.before = hevy_workouts]]
  /\ backfill' = [Returned(BackfillIdle, backfill) EXCEPT !.threw = backfill.threw]
  /\ UNCHANGED <<hevy_workouts, hevy_events, cursor, syncClock>>

\* getWorkoutEvents resolved with `evs`: break and setMeta after an empty page,
\* else the for loop over the page
SyncPage(p, evs) ==
  /\ sync[p].pc = "awaitEvents"
  /\ IF Len(evs) = 0
       THEN /\ cursor' = sync[p].newestSeen
            /\ sync' = [sync EXCEPT ![p].pc = "done", ![p].served = @ + 1,
                                    ![p].lastLen = 0]
            /\ UNCHANGED <<hevy_workouts, hevy_events>>
       ELSE LET run == RunEvents(hevy_workouts, hevy_events, sync[p].newestSeen, evs,
                                 sync[p].last)
            IN  /\ hevy_workouts' = run.rows
                /\ hevy_events' = run.events
                /\ sync' = [sync EXCEPT ![p] =
                     AfterRun([sync[p] EXCEPT !.served = @ + 1, !.lastLen = Len(evs),
                                              !.listed = @ + Len(evs)], run)]
                /\ UNCHANGED cursor
  /\ UNCHANGED <<backfill, syncClock>>

GetWorkoutEventsResolves ==
  /\ \E p \in SyncProcs :
       /\ sync[p].pc = "awaitEvents"
       /\ \E evs \in UpstreamPages(EventShapes, sync[p].page, PageSize) :
         /\ sync[p].listed + Len(evs) <= MaxEvents
         /\ SyncPage(p, evs)
  /\ OutsideSync

\* getWorkout(workoutId) resolved with `full`: the upsert, then the rest of the page
SyncWorkout(p, full) ==
  /\ sync[p].pc = "awaitWorkout"
  /\ LET ev == Head(sync[p].rest)
         id == IF full.id # Null THEN full.id ELSE ev.workout_id
         updated_at == IF full.updated_at # NullTs THEN full.updated_at
                       ELSE sync[p].occurredAt
         run == RunEvents(Upsert(hevy_workouts, id, updated_at, full), hevy_events,
                          sync[p].newestSeen, Tail(sync[p].rest),
                          [sync[p].last EXCEPT ![ev.workout_id] = Fetched(full)])
     IN  /\ hevy_workouts' = run.rows
         /\ hevy_events' = run.events
         /\ sync' = [sync EXCEPT ![p] = AfterRun(sync[p], run)]
  /\ UNCHANGED <<cursor, backfill, syncClock>>

GetWorkoutResolves ==
  /\ \E p \in DOMAIN sync :
       /\ sync[p].pc = "awaitWorkout"
       /\ \E full \in FullWorkouts(Head(sync[p].rest).workout_id) : SyncWorkout(p, full)
  /\ OutsideSync

\* a rejection handled as if setMeta sat in a `finally`: the cursor is moved to the
\* newest event the failed run had seen
HevyFetchThrowsSavesCursor ==
  /\ \E p \in DOMAIN sync :
       /\ sync[p].pc \in {"awaitEvents", "awaitWorkout"}
       /\ sync' = [sync EXCEPT ![p].pc = "failed"]
       /\ cursor' = sync[p].newestSeen
       /\ UNCHANGED <<hevy_workouts, hevy_events, backfill, syncClock>>
  /\ OutsideSync

\* what POST /api/sync/hevy answers once incrementalSync has settled:
\* try{ ...; res.json({ok:true,...result}) } catch(e){ res.status(500).json({ok:false,...}) }
SyncResponse(job) ==
  IF job.pc = "failed" THEN [status |-> 500, ok |-> FALSE]
  ELSE [status |-> 200, ok |-> TRUE]

\* getWorkoutEvents or getWorkout throws: incrementalSync rejects, setMeta is not reached
HevyFetchThrows ==
  /\ \E p \in DOMAIN sync :
       /\ sync[p].pc \in {"awaitEvents", "awaitWorkout"}
       /\ sync' = [sync EXCEPT ![p].pc = "failed"]
       /\ UNCHANGED <<hevy_workouts, hevy_events, cursor, backfill, syncClock>>
  /\ OutsideSync

\* time passes
SyncClockTick ==
  /\ syncClock < MaxClock
  /\ syncClock' = syncClock + 1
  /\ UNCHANGED <<hevy_workouts, hevy_events, cursor, backfill, sync>>
  /\ OutsideSync

\* openDb(): the tables exist and are empty
SyncInit ==
  /\ hevy_workouts = [i \in RowKeys |-> NoRow]
  /\ hevy_events = EmptyBag
  /\ cursor = NoCursor
  /\ backfill = BackfillIdle
  /\ sync = [p \in SyncProcs |-> SyncIdle]
  /\ syncClock = 1
  /\ hevyUpstream = <<>>

SyncNext ==
  \/ BackfillStart
  \/ ListWorkoutsResolves
  \/ ListWorkoutsThrows
  \/ \E p \in SyncProcs : SyncStart(p)
  \/ GetWorkoutEventsResolves
  \/ GetWorkoutResolves
  \/ HevyFetchThrows
  \/ SyncClockTick

\* ---- incrementalSync called by the cron job and by POST /api/sync/hevy, with
\* nothing that keeps one call from starting while another is suspended

\* callers of incrementalSync: cron.schedule and POST /api/sync/hevy
OverlapProcs == {"cron", "manual"}

\* the kinds of event the upstream logs of its one workout
UpstreamEventTypes == {"updated", "deleted"}

\* a workout is updated or deleted upstream: its event is logged with the time
UpstreamEvent ==
  /\ Len(hevyUpstream) < MaxUpstream
  /\ \E type \in UpstreamEventTypes :
       LET ev == [type |-> type, workout_id |-> "w1", occurred_at |-> syncClock]
       IN  /\ \A i \in 1..Len(hevyUpstream) : hevyUpstream[i] # ev
           /\ hevyUpstream' = Append(hevyUpstream, ev)
  /\ UNCHANGED syncVars
  /\ UNCHANGED <<hookVars, cacheVars, muscleVars, matchVars, restVars>>

\* GET /v1/workouts/events?since=...&page=...&pageSize=...: the events of the
\* log from `since` on, with those logged at `since` itself or without them
GetWorkoutEvents(sinceIso, page, pageSize, inclusive) ==
  LET events == SelectSeq(hevyUpstream,
                  LAMBDA ev : ev.occurred_at > sinceIso
                              \/ (inclusive /\ ev.occurred_at = sinceIso))
      first == (page - 1) * pageSize + 1
      last == IF page * pageSize < Len(events) THEN page * pageSize ELSE Len(events)
  IN  SubSeq(events, first, last)

\* incrementalSync up to its first await, whatever the other caller is doing; a
\* caller whose last call has returned may call again
OverlapStart(p) ==
  /\ sync[p].pc \in {"idle", "done", "failed"}
  /\ BagCardinality(hevy_events) < MaxRecorded
  /\ sync' = [sync EXCEPT ![p] =
       [SyncIdle EXCEPT !.pc = "awaitEvents", !.since = GetMeta(Epoch),
                        !.page = 1, !.newestSeen = GetMeta(Epoch),
                        !.before = hevy_workouts]]
  /\ UNCHANGED <<hevy_workouts, hevy_events, cursor, backfill, syncClock>>

\* cron.schedule(expr, async () => { await incrementalSync(db) })
CronSync ==
  /\ OverlapStart("cron")
  /\ OutsideSync

\* app.post('/api/sync/hevy', ...)
ManualSync ==
  /\ OverlapStart("manual")
  /\ OutsideSync

\* getWorkoutEvents resolved with the page of the upstream's log
EventsPageResolves ==
  /\ \E p \in DOMAIN sync, inclusive \in BOOLEAN :
       /\ sync[p].pc = "awaitEvents"
       /\ LET evs == GetWorkoutEvents(sync[p].since, sync[p].page, PageSize, inclusive)
          IN  /\ BagCardinality(hevy_events) + Len(evs) <= MaxRecorded
              /\ SyncPage(p, evs)
  /\ OutsideSync

OverlapInit ==
  /\ hevy_workouts = [i \in RowKeys |-> NoRow]
  /\ hevy_events = EmptyBag
  /\ cursor = NoCursor
  /\ backfill = BackfillIdle
  /\ sync = [p \in OverlapProcs |-> SyncIdle]
  /\ syncClock = 1
  /\ hevyUpstream = <<>>

OverlapNext ==
  \/ UpstreamEvent
  \/ CronSync
  \/ ManualSync
  \/ EventsPageResolves
  \/ GetWorkoutResolves
  \/ HevyFetchThrows
  \/ SyncClockTick

\* ---- initialBackfill followed by incrementalSync, against an upstream whose
\* workouts change while the backfill is paging

\* the last event of workout id in the upstream's log, 0 when it has none
LastEventOf(id) ==
  LET at == {i \in 1..Len(hevyUpstream) : hevyUpstream[i].workout_id = id}
  IN  IF at = {} THEN 0 ELSE CHOOSE i \in at : \A j \in at : j <= i

\* the workouts the upstream holds now
UpstreamIds ==
  {id \in Ids : LastEventOf(id) # 0 /\ ~IsDelete(hevyUpstream[LastEventOf(id)].type)}

\* GET /v1/workouts/{id}: the workout as it is now
UpstreamWorkout(id) ==
  [id |-> id, workout_id |-> Null, workoutId |-> Null,
   updated_at |-> hevyUpstream[LastEventOf(id)].occurred_at]

\* the orders in which the upstream may list the workouts of S
RECURSIVE ListingsOf(_)
ListingsOf(S) ==
  IF S = {} THEN {<<>>}
  ELSE UNION {{<<UpstreamWorkout(id)>> \o l : l \in ListingsOf(S \ {id})} : id \in S}

\* GET /v1/workouts?page=...&pageSize=...: a page of the listing
ListWorkouts(listing, page, pageSize) ==
  LET first == (page - 1) * pageSize + 1
      last == IF page * pageSize < Len(listing) THEN page * pageSize ELSE Len(listing)
  IN  SubSeq(listing, first, last)

\* a workout is created, updated or deleted upstream before the backfill has
\* completed: the change is logged with the time
UpstreamChange ==
  /\ backfill.pc \in {"idle", "awaitPage"}
  /\ Len(hevyUpstream) < MaxUpstream
  /\ \E id \in Ids :
       \E type \in (IF id \in UpstreamIds THEN UpstreamEventTypes ELSE {"created"}) :
         LET ev == [type |-> type, workout_id |-> id, occurred_at |-> syncClock]
         IN  /\ \A i \in 1..Len(hevyUpstream) : hevyUpstream[i] # ev
             /\ hevyUpstream' = Append(hevyUpstream, ev)
  /\ UNCHANGED syncVars
  /\ UNCHANGED <<hookVars, cacheVars, muscleVars, matchVars, restVars>>

\* listWorkouts resolved with the page of the upstream's workouts as they are now
ListWorkoutsPageResolves ==
  /\ backfill.pc = "awaitPage"
  /\ \E listing \in ListingsOf(UpstreamIds) :
       BackfillPage(ListWorkouts(listing, backfill.page, PageSize))
  /\ OutsideSync

\* getWorkout resolved with the workout as it is now upstream
GetWorkoutFromUpstream ==
  /\ \E p \in DOMAIN sync :
       /\ sync[p].pc = "awaitWorkout"
       /\ Head(sync[p].rest).workout_id \in UpstreamIds
       /\ SyncWorkout(p, UpstreamWorkout(Head(sync[p].rest).workout_id))
  /\ OutsideSync

HandoverNext ==
  \/ UpstreamChange
  \/ BackfillStart
  \/ ListWorkoutsPageResolves
  \/ ListWorkoutsThrows
  \/ \E p \in SyncProcs : SyncStart(p)
  \/ EventsPageResolves
  \/ GetWorkoutFromUpstream
  \/ HevyFetchThrows
  \/ SyncClockTick
----------------------------------------------------------------------------
\* The tracker component (src/unnamed/part_000): workout upload, muscle-group
\* overrides, muscle-group distribution

\* Text is a sequence of characters.
UpperCase == <<"A", "B", "C", "D", "E", "F", "G", "H", "I", "J", "K", "L", "M",
              "N", "O", "P", "Q", "R", "S", "T", "U", "V", "W", "X", "Y", "Z">>
LowerCase == <<"a", "b", "c", "d", "e", "f", "g", "h", "i", "j", "k", "l", "m",
              "n", "o", "p", "q", "r", "s", "t", "u", "v", "w", "x", "y", "z">>

\* String.prototype.toLowerCase
ToLowerCase(s) ==
  [i \in 1..Len(s) |->
     IF \E k \in 1..Len(UpperCase) : UpperCase[k] = s[i]
     THEN LowerCase[CHOOSE k \in 1..Len(UpperCase) : UpperCase[k] = s[i]]
     ELSE s[i]]

\* String.prototype.includes
Includes(s, t) ==
  \E i \in 0..(Len(s) - Len(t)) : SubSeq(s, i + 1, i + Len(t)) = t

\* /(a|b|c)/.test(s)
Test(alternatives, s) == \E t \in alternatives : Includes(s, t)

\* \s
IsSpace(c) == c \in {" ", "\t"}

\* String.prototype.trim
Trim(s) ==
  LET inked == {i \in 1..Len(s) : ~IsSpace(s[i])}
  IN  IF inked = {} THEN <<>>
      ELSE SubSeq(s, CHOOSE i \in inked : \A j \in inked : i <= j,
                     CHOOSE i \in inked : \A j \in inked : i >= j)

\* s.replace(/\s*\(.*?\)\s*/g, ""): the leftmost match starts at the blanks before
\* the first "(" that has a ")" after it, and ends after the blanks behind the
\* first ")" that follows
RECURSIVE StripParens(_)
StripParens(s) ==
  LET opens == {i \in 1..Len(s) : s[i] = "("}
  IN  IF opens = {} THEN s
      ELSE LET j == CHOOSE i \in opens : \A o \in opens : i <= o
               closes == {k \in (j + 1)..Len(s) : s[k] = ")"}
           IN  IF closes = {} THEN s
               ELSE LET k == CHOOSE c \in closes : \A o \in closes : c <= o
                        starts == {a \in 1..j : \A b \in a..(j - 1) : IsSpace(s[b])}
                        ends == {e \in k..Len(s) : \A b \in (k + 1)..e : IsSpace(s[b])}
                        start == CHOOSE a \in starts : \A o \in starts : a <= o
                        end == CHOOSE e \in ends : \A o \in ends : e >= o
                    IN  SubSeq(s, 1, start - 1) \o StripParens(SubSeq(s, end + 1, Len(s)))

\* normalizeExercise(name)
normalizeExercise(name) ==
  LET raw == Trim(name)
      low == ToLowerCase(raw)
  IN  IF raw = <<>> THEN <<"U", "n", "k", "n", "o", "w", "n">>
      ELSE IF Includes(low, <<"i", "n", "c", "l", "i", "n", "e", " ", "b", "e", "n", "c", "h">>) THEN <<"I", "n", "c", "l", "i", "n", "e", " ", "B", "e", "n", "c", "h">>
      ELSE IF Includes(low, <<"s", "h", "o", "u", "l", "d", "e", "r", " ", "p", "r", "e", "s", "s">>) THEN <<"S", "h", "o", "u", "l", "d", "e", "r", " ", "P", "r", "e", "s", "s">>
      ELSE IF Includes(low, <<"d", "e", "a", "d", "l", "i", "f", "t">>) THEN <<"D", "e", "a", "d", "l", "i", "f", "t">>
      ELSE IF Includes(low, <<"p", "u", "l", "l", "d", "o", "w", "n">>) THEN <<"P", "u", "l", "l", "d", "o", "w", "n">>
      ELSE IF Includes(low, <<"s", "q", "u", "a", "t">>) THEN <<"S", "q", "u", "a", "t">>
      ELSE Trim(StripParens(raw))

\* type MuscleGroup, const MUSCLE_GROUPS
MUSCLE_GROUPS ==
  <<"Chest", "Back", "Legs", "Shoulders", "Arms", "Core", "Calves", "Conditioning", "Other">>

MuscleGroup == {MUSCLE_GROUPS[i] : i \in 1..Len(MUSCLE_GROUPS)}

\* the keyword rules of inferMuscleGroup, in the order the code tests them:
\* <<group, alternatives of the regular expression>>
KeywordRules ==
  <<
  <<"Legs",
    { <<"s", "q", "u", "a", "t">>, <<"l", "u", "n", "g", "e">>,
      <<"l", "e", "g", " ", "p", "r", "e", "s", "s">>, <<"h", "a", "c", "k">>,
      <<"d", "e", "a", "d", "l", "i", "f", "t">>, <<"r", "d", "l">>,
      <<"t", "h", "i", "g", "h">>, <<"h", "a", "m", "s", "t", "r", "i", "n", "g">>,
      <<"q", "u", "a", "d">> }>>,
  <<"Chest",
    { <<"b", "e", "n", "c", "h">>, <<"c", "h", "e", "s", "t">>, <<"f", "l", "y">>,
      <<"d", "i", "p">> }>>,
  <<"Back",
    { <<"r", "o", "w">>, <<"p", "u", "l", "l", "d", "o", "w", "n">>,
      <<"p", "u", "l", "l", "-", "u", "p">>, <<"c", "h", "i", "n">>, <<"l", "a", "t">>,
      <<"b", "a", "c", "k">> }>>,
  <<"Shoulders",
    { <<"p", "r", "e", "s", "s">>, <<"s", "h", "o", "u", "l", "d", "e", "r">>,
      <<"l", "a", "t", "e", "r", "a", "l">>,
      <<"r", "e", "a", "r", " ", "d", "e", "l", "t">>,
      <<"o", "v", "e", "r", "h", "e", "a", "d">> }>>,
  <<"Arms",
    { <<"c", "u", "r", "l">>, <<"b", "i", "c", "e", "p">>,
      <<"t", "r", "i", "c", "e", "p">>, <<"e", "x", "t", "e", "n", "s", "i", "o", "n">>,
      <<"p", "u", "s", "h", "d", "o", "w", "n">> }>>,
  <<"Calves",
    { <<"c", "a", "l", "f">> }>>,
  <<"Core",
    { <<"a", "b", "s">>, <<"c", "o", "r", "e">>, <<"c", "r", "u", "n", "c", "h">>,
      <<"p", "l", "a", "n", "k">> }>>,
  <<"Conditioning",
    { <<"r", "u", "n">>, <<"b", "i", "k", "e">>, <<"s", "w", "i", "m">>,
      <<"c", "o", "n", "d", "i", "t", "i", "o", "n", "i", "n", "g">>,
      <<"k", "e", "t", "t", "l", "e", "b", "e", "l", "l">>,
      <<"c", "a", "r", "d", "i", "o">> }>>
  >>

\* the chain of `if (/(...)/.test(x)) return ...` of inferMuscleGroup, ending in
\* return "Other"
KeywordGroup(x) ==
  LET hits == {i \in 1..Len(KeywordRules) : Test(KeywordRules[i][2], x)}
  IN  IF hits = {} THEN "Other"
      ELSE KeywordRules[CHOOSE i \in hits : \A j \in hits : i <= j][1]

\* the property names every object literal inherits from Object.prototype
ObjectPrototypeKeys ==
  { <<"c", "o", "n", "s", "t", "r", "u", "c", "t", "o", "r">>,
    <<"t", "o", "S", "t", "r", "i", "n", "g">>, <<"v", "a", "l", "u", "e", "O", "f">>,
    <<"h", "a", "s", "O", "w", "n", "P", "r", "o", "p", "e", "r", "t", "y">>,
    <<"i", "s", "P", "r", "o", "t", "o", "t", "y", "p", "e", "O", "f">>,
    <<"p", "r", "o", "p", "e", "r", "t", "y", "I", "s", "E", "n", "u", "m", "e", "r", "a", "b", "l", "e">>,
    <<"t", "o", "L", "o", "c", "a", "l", "e", "S", "t", "r", "i", "n", "g">>,
    <<"_", "_", "p", "r", "o", "t", "o", "_", "_">> }

\* what an inherited property holds: a function, or Object.prototype itself
Inherited == "[native code]"

Undefined == "undefined"

\* muscleGroupOverrides[exercise]: the own property, else the inherited one, else
\* undefined
Lookup(overrides, exercise) ==
  IF exercise \in DOMAIN overrides THEN overrides[exercise]
  ELSE IF exercise \in ObjectPrototypeKeys THEN Inherited
  ELSE Undefined

\* the workout title of the rows of the uploaded files
PushDay == <<"P", "u", "s", "h", " ", "D", "a", "y">>

\* title.includes(...) of handleWorkoutUpload
CategoryOf(title) ==
  IF Includes(title, <<"p", "u", "s", "h">>) THEN "push"
  ELSE IF Includes(title, <<"p", "u", "l", "l">>) THEN "pull"
  ELSE IF Includes(title, <<"l", "e", "g", "s">>) THEN "legs"
  ELSE "conditioning"

\* a row parseHevyCSV gives for a line of the file: title, exercise_title, reps,
\* weight_kg, start_time, each the text of its cell; no sets and no rpe column
Row(exercise_title, reps, weight_kg) ==
  [title |-> PushDay, exercise_title |-> exercise_title,
   reps |-> reps, weight_kg |-> weight_kg, start_time |-> "2025-01-06"]

\* the rows of the uploaded files
Rows ==
  { Row(<<"C", "a", "l", "f", " ", "R", "a", "i", "s", "e", " ", "(", "M", "a", "c", "h", "i", "n", "e", ")">>, <<"1", "0">>, <<"5", "0">>),
    Row(<<"S", "q", "u", "a", "t">>, <<"3">>, <<"5">>),
    Row(<<"B", "e", "n", "c", "h", " ", "P", "r", "e", "s", "s">>, <<"1">>, <<"1">>),
    Row(<<"Y", "o", "g", "a">>, <<"1", "0">>, <<"0">>),
    Row(<<"c", "o", "n", "s", "t", "r", "u", "c", "t", "o", "r">>, <<"1", "0">>, <<"5", "0">>) }

\* the start_time cells of the rows of set files: a Monday, the Wednesday of
\* the same week and the Monday after
SetDates == {"2025-01-06", "2025-01-08", "2025-01-13"}

\* the reps cells of the rows of set files: empty, zero, negative, positive,
\* not a number
SetReps == {<<>>, <<"0">>, <<"-", "5">>, <<"5">>, <<"x">>}

\* the weight_kg cells of the rows of set files
SetWeights == {<<>>, <<"0">>, <<"-", "2", "0">>, <<"2", "0">>}

\* the rows of set files: every combination of the cells above for one
\* exercise, and the rows of files that have no reps or no weight_kg column
SetRows ==
  LET squat == <<"S", "q", "u", "a", "t">>
  IN       { [title |-> PushDay, exercise_title |-> squat, reps |-> r,
              weight_kg |-> w, start_time |-> d] :
              r \in SetReps, w \in SetWeights, d \in SetDates }
     \cup { [title |-> PushDay, exercise_title |-> squat, weight_kg |-> w,
              start_time |-> "2025-01-06"] : w \in SetWeights }
     \cup { [title |-> PushDay, exercise_title |-> squat, reps |-> r,
              start_time |-> "2025-01-06"] : r \in SetReps }

\* the rows of a file without a start_time or date column, or with the cell empty
UndatedRows ==
  { [title |-> PushDay, exercise_title |-> <<"S", "q", "u", "a", "t">>,
     reps |-> <<"5">>, weight_kg |-> <<"2", "0">>, start_time |-> ""] }

\* every row of the model
AllRows == Rows \cup SetRows \cup UndatedRows

\* the decimal digits of a cell
DigitValue ==
  [c \in {"0", "1", "2", "3", "4", "5", "6", "7", "8", "9"} |->
     CASE c = "0" -> 0 [] c = "1" -> 1 [] c = "2" -> 2 [] c = "3" -> 3 [] c = "4" -> 4
       [] c = "5" -> 5 [] c = "6" -> 6 [] c = "7" -> 7 [] c = "8" -> 8 [] c = "9" -> 9]

\* the value of a run of decimal digits
RECURSIVE DigitsValue(_)
DigitsValue(s) ==
  IF s = <<>> THEN 0
  ELSE 10 * DigitsValue(SubSeq(s, 1, Len(s) - 1)) + DigitValue[s[Len(s)]]

IsDigits(s) == s # <<>> /\ \A i \in 1..Len(s) : s[i] \in DOMAIN DigitValue

\* Number(text) for the cells of the model (integers, empty, words): the empty
\* text is 0, a signed run of digits is its value, anything else is NaN
Number(text) ==
  LET t == Trim(text)
  IN  IF t = <<>> THEN [finite |-> TRUE, n |-> 0]
      ELSE IF IsDigits(t) THEN [finite |-> TRUE, n |-> DigitsValue(t)]
      ELSE IF t[1] = "-" /\ IsDigits(Tail(t)) THEN [finite |-> TRUE, n |-> 0 - DigitsValue(Tail(t))]
      ELSE IF t[1] = "+" /\ IsDigits(Tail(t)) THEN [finite |-> TRUE, n |-> DigitsValue(Tail(t))]
      ELSE [finite |-> FALSE, n |-> 0]

\* Number(row[column] ?? 0), then Number.isFinite(v) ? v : 0
FiniteCell(row, column) ==
  LET v == IF column \in DOMAIN row THEN Number(row[column]) ELSE [finite |-> TRUE, n |-> 0]
  IN  IF v.finite THEN v.n ELSE 0

WorkoutCategory == {"push", "pull", "legs", "conditioning"}

\* the WorkoutEntry handleWorkoutUpload builds from a row: sets is
\* Number(row["sets"] ?? 1) || 1, rpe is Number(row["rpe"] ?? 9)
EntryOf(row) ==
  [date |-> row.start_time,
   exerciseRaw |-> row.exercise_title,
   exercise |-> normalizeExercise(row.exercise_title),
   sets |-> 1,
   reps |-> FiniteCell(row, "reps"),
   weight |-> FiniteCell(row, "weight_kg"),
   rpe |-> 9]

\* the entries of the rows of the model, computed once
Entries == [row \in AllRows |-> EntryOf(row)]

\* const date = (row["start_time"] ?? row["date"] ?? "").toString()
\*              || new Date().toLocaleDateString("en-GB")
DateOr(start_time, day) == IF start_time = "" THEN day ELSE start_time

\* the WorkoutEntry of a row uploaded now
Entry(row) == [Entries[row] EXCEPT !.date = DateOr(row.start_time, today)]

\* the categories of the rows of the model, computed once
Categories == [row \in AllRows |-> CategoryOf(ToLowerCase(row.title))]

\* the keyword group of the exercise names of the model, computed once
KeywordGroups ==
  [exercise \in {Entries[row].exercise : row \in Rows} |-> KeywordGroup(ToLowerCase(exercise))]

\* the keyword group of an exercise name
KeywordGroupOf(exercise) ==
  IF exercise \in DOMAIN KeywordGroups THEN KeywordGroups[exercise]
  ELSE KeywordGroup(ToLowerCase(exercise))

\* if (muscleGroupOverrides[exercise]) return it; else the keyword rules
OverrideOr(override, exercise) ==
  IF override # Undefined THEN override ELSE KeywordGroupOf(exercise)

\* inferMuscleGroup(exercise), under the override map of the current render
inferMuscleGroup(overrides, exercise) ==
  OverrideOr(Lookup(overrides, exercise), exercise)

\* v || 0
OrZero(v) == IF v = 0 THEN 0 ELSE v

\* tonnage(w)
tonnage(w) == OrZero(w.sets) * OrZero(w.reps) * OrZero(w.weight)

\* the key of deduplicateWorkouts
DedupKey(w) == <<w.date, w.exercise, w.weight, w.reps, w.rpe>>

\* deduplicateWorkouts(workouts): the first entry of each key, in order
RECURSIVE deduplicateWorkouts(_)
deduplicateWorkouts(ws) ==
  IF ws = <<>> THEN <<>>
  ELSE LET front == deduplicateWorkouts(SubSeq(ws, 1, Len(ws) - 1))
           w == ws[Len(ws)]
       IN  IF \E i \in 1..Len(front) : DedupKey(front[i]) = DedupKey(w)
           THEN front
           ELSE Append(front, w)

\* newWorkouts[category] of handleWorkoutUpload: the entries of the rows of one
\* category, in file order
RECURSIVE NewWorkouts(_, _)
NewWorkouts(file, category) ==
  IF file = <<>> THEN <<>>
  ELSE LET front == NewWorkouts(SubSeq(file, 1, Len(file) - 1), category)
           row == file[Len(file)]
       IN  IF Categories[row] = category
           THEN Append(front, Entry(row))
           ELSE front

\* allWorkouts: [...workouts.push, ...workouts.pull, ...workouts.legs,
\* ...workouts.conditioning]
AllWorkoutsOf(ws) == ws.push \o ws.pull \o ws.legs \o ws.conditioning

allWorkouts == memo.allWorkouts

\* allExercises (as a set: the order of the list plays no part here)
allExercises == {allWorkouts[i].exercise : i \in 1..Len(allWorkouts)}

\* map[g] += tonnage(w); a g that is no key of the map leaves its nine entries
\* as they are
AddTonnage(map, g, w) ==
  IF g \in MuscleGroup THEN [map EXCEPT ![g] = @ + tonnage(w)] ELSE map

\* the map of muscleGroupTonnage after its loop over allWorkouts:
\* for (const w of allWorkouts) { const g = inferMuscleGroup(w.exercise); map[g] += tonnage(w); }
\* A result of inferMuscleGroup that is no MuscleGroup adds to a key of its own,
\* whose value is NaN and fails `x.value > 0`: the nine entries stay as they are.
RECURSIVE TonnageMap(_, _)
TonnageMap(overrides, ws) ==
  IF ws = <<>> THEN [g \in MuscleGroup |-> 0]
  ELSE AddTonnage(TonnageMap(overrides, SubSeq(ws, 1, Len(ws) - 1)),
                  inferMuscleGroup(overrides, ws[Len(ws)].exercise),
                  ws[Len(ws)])

\* items.sort((a, b) => b.value - a.value): by value, largest first, equal values
\* in the order they had
RECURSIVE SortByValue(_)
SortByValue(items) ==
  IF items = <<>> THEN <<>>
  ELSE LET i == CHOOSE k \in 1..Len(items) :
                  /\ \A j \in 1..Len(items) : items[j].value <= items[k].value
                  /\ \A j \in 1..(k - 1) : items[j].value < items[k].value
       IN  <<items[i]>> \o SortByValue(SubSeq(items, 1, i - 1) \o SubSeq(items, i + 1, Len(items)))

\* a percentage rounded to a whole percent, toFixed(0), in tenths of a percent
PctToFixed0(value, total) ==
  IF total = 0 THEN 0 ELSE 10 * ((200 * value + total) \div (2 * total))

\* +(x.value / total * 100).toFixed(1), in tenths of a percent
Pct(value, total) == IF total = 0 THEN 0 ELSE (2000 * value + total) \div (2 * total)

RECURSIVE SumValues(_)
SumValues(items) == IF items = <<>> THEN 0 ELSE Head(items).value + SumValues(Tail(items))

\* the entries of the map with value > 0, in the order of its keys
Items(map) ==
  LET kept == SelectSeq(MUSCLE_GROUPS, LAMBDA g : map[g] > 0)
  IN  [i \in 1..Len(kept) |-> [name |-> kept[i], value |-> map[kept[i]]]]

\* items.map((x) => ({ ...x, pct, total }))
WithPct(items, total) ==
  [i \in 1..Len(items) |->
     [name |-> items[i].name, value |-> items[i].value,
      pct |-> Pct(items[i].value, total), total |-> total]]

\* total = items.reduce((s, x) => s + x.value, 0), then pct and total on each item
WithTotal(items) == WithPct(items, SumValues(items))

\* the memo muscleGroupTonnage: the map of the nine groups filled from
\* allWorkouts, its entries with value > 0, sorted, with pct and total
muscleGroupTonnageOf(overrides, ws) ==
  WithTotal(SortByValue(Items(TonnageMap(overrides, ws))))

\* the memo muscleGroupTonnage, as the last render left it
muscleGroupTonnage == memo.muscleGroupTonnage

\* the memos of a render: allWorkouts and inferMuscleGroup as given,
\* muscleGroupTonnage computed anew when one of its dependencies changed
Memos(all, infer, changed) ==
  [allWorkouts |-> all,
   inferMuscleGroup |-> infer,
   muscleGroupTonnage |->
     IF changed THEN muscleGroupTonnageOf(infer, all) ELSE memo.muscleGroupTonnage]

\* the useMemo values of a render whose muscleGroupTonnage depends on allWorkouts only
RenderForgetsOverrides(ws, overrides, workoutsSet, overridesSet) ==
  Memos(IF workoutsSet THEN AllWorkoutsOf(ws) ELSE memo.allWorkouts,
        IF overridesSet THEN overrides ELSE memo.inferMuscleGroup,
        workoutsSet)

\* the useMemo values of the render that follows a state update: allWorkouts
\* (dependencies [workouts, dataVersion]), inferMuscleGroup, held as the override
\* map its closure reads ([muscleGroupOverrides]), muscleGroupTonnage
\* ([allWorkouts, inferMuscleGroup]). workoutsSet / overridesSet: the update gave
\* setWorkouts / setMuscleGroupOverrides a new object; a memo whose dependencies
\* are the objects of the render before keeps its value.
Render(ws, overrides, workoutsSet, overridesSet) ==
  Memos(IF workoutsSet THEN AllWorkoutsOf(ws) ELSE memo.allWorkouts,
        IF overridesSet THEN overrides ELSE memo.inferMuscleGroup,
        workoutsSet \/ overridesSet)

NoUploadStatus == [type |-> "null", count |-> 0]

\* setWorkouts(merged), for a history within the bound of the model
SetWorkouts(merged) ==
  /\ Len(AllWorkoutsOf(merged)) <= MaxHistory
  /\ workouts' = merged

\* reader.onload of handleWorkoutUpload, for the rows of one file. The
\* lifts of updateProgress and the nextWeight of an entry are not part of the model.
handleWorkoutUpload(file) ==
  /\ SetWorkouts([c \in WorkoutCategory |->
                   deduplicateWorkouts(workouts[c] \o NewWorkouts(file, c))])
  /\ uploadStatus' = [type |-> "success", count |-> Len(file)]
  /\ UNCHANGED muscleGroupOverrides

\* the user picks a file, here of one row
Upload ==
  /\ \E row \in Rows : handleWorkoutUpload(<<row>>)
  /\ memo' = Render(workouts', muscleGroupOverrides', TRUE, FALSE)
  /\ OutsideMuscle

\* the user picks a file of one set row
UploadSets ==
  /\ \E row \in SetRows : handleWorkoutUpload(<<row>>)
  /\ memo' = Render(workouts', muscleGroupOverrides', TRUE, FALSE)
  /\ OutsideMuscle

\* setTimeout(() => setUploadStatus({ type: null, message: '' }), 5000)
UploadStatusTimeout ==
  /\ uploadStatus.type # "null"
  /\ uploadStatus' = NoUploadStatus
  /\ UNCHANGED <<workouts, muscleGroupOverrides>>
  /\ memo' = Render(workouts', muscleGroupOverrides', FALSE, FALSE)
  /\ OutsideMuscle

\* saveOverride, with overrideExercise picked among allExercises and
\* overrideMuscleGroup among MUSCLE_GROUPS
saveOverride(overrideExercise, overrideMuscleGroup) ==
  /\ overrideExercise # <<>>
  /\ LET keys == DOMAIN muscleGroupOverrides \cup {overrideExercise}
     IN  /\ Cardinality(keys) <= MaxOverrides
         /\ muscleGroupOverrides' =
              [k \in keys |-> IF k = overrideExercise THEN overrideMuscleGroup
                              ELSE muscleGroupOverrides[k]]
  /\ UNCHANGED <<workouts, uploadStatus>>

SaveOverride ==
  /\ \E ex \in allExercises, g \in MuscleGroup : saveOverride(ex, g)
  /\ memo' = Render(workouts', muscleGroupOverrides', FALSE, TRUE)
  /\ OutsideMuscle

\* removeOverride(exercise), from the list of Object.entries(muscleGroupOverrides)
removeOverride(exercise) ==
  /\ muscleGroupOverrides' =
       [k \in DOMAIN muscleGroupOverrides \ {exercise} |-> muscleGroupOverrides[k]]
  /\ UNCHANGED <<workouts, uploadStatus>>

RemoveOverride ==
  /\ \E ex \in DOMAIN muscleGroupOverrides : removeOverride(ex)
  /\ memo' = Render(workouts', muscleGroupOverrides', FALSE, TRUE)
  /\ OutsideMuscle

MuscleInit ==
  /\ workouts = [c \in WorkoutCategory |-> <<>>]
  /\ muscleGroupOverrides = <<>>
  /\ uploadStatus = NoUploadStatus
  /\ memo = [allWorkouts |-> <<>>, inferMuscleGroup |-> <<>>, muscleGroupTonnage |-> <<>>]

MuscleNext == Upload \/ UploadStatusTimeout \/ SaveOverride \/ RemoveOverride

----------------------------------------------------------------------------
\* Volume and estimated one-rep maximum of the tracker component

\* isoMatch of toTs for the dates of the model: year, month, day
IsoMatch ==
  [d \in SetDates |->
     CASE d = "2025-01-06" -> <<2025, 1, 6>>
       [] d = "2025-01-08" -> <<2025, 1, 8>>
       [] d = "2025-01-13" -> <<2025, 1, 13>>]

\* new Date(yyyy, mm - 1, dd).getTime(), in days since 1970-01-01 (local time,
\* no change of clock between the dates of the model)
DateTs(yyyy, mm, dd) ==
  LET y == IF mm <= 2 THEN yyyy - 1 ELSE yyyy
      era == y \div 400
      yoe == y - era * 400
      doy == (153 * (IF mm > 2 THEN mm - 3 ELSE mm + 9) + 2) \div 5 + dd - 1
      doe == yoe * 365 + yoe \div 4 - yoe \div 100 + doy
  IN  era * 146097 + doe - 719468

\* toTs(d), in days
toTs(d) == DateTs(IsoMatch[d][1], IsoMatch[d][2], IsoMatch[d][3])

\* parseDateInputTs(v) of a date input holding one of the dates of the model
parseDateInputTs(v) == DateTs(IsoMatch[v][1], IsoMatch[v][2], IsoMatch[v][3])

\* d.getDay(): 1970-01-01 was a Thursday
GetDay(ts) == (ts + 4) % 7

\* startOfWeek(ts): the Monday of the week of ts
startOfWeek(ts) == ts - ((GetDay(ts) + 6) % 7)

\* the map of weeklyVolumeSeries after the loop over allWorkouts
RECURSIVE WeeklyMap(_)
WeeklyMap(ws) ==
  IF ws = <<>> THEN <<>>
  ELSE LET map == WeeklyMap(SubSeq(ws, 1, Len(ws) - 1))
           w == ws[Len(ws)]
           ts == startOfWeek(toTs(w.date))
           old == IF ts \in DOMAIN map THEN map[ts]
                  ELSE [ts |-> ts, volume |-> 0, rpeSum |-> 0, rpeCount |-> 0]
           new == [ts |-> ts,
                   volume |-> old.volume + tonnage(w),
                   rpeSum |-> IF w.rpe > 0 THEN old.rpeSum + w.rpe ELSE old.rpeSum,
                   rpeCount |-> IF w.rpe > 0 THEN old.rpeCount + 1 ELSE old.rpeCount]
       IN  [k \in DOMAIN map \cup {ts} |-> IF k = ts THEN new ELSE map[k]]

\* the map of a loop that keeps the tonnage of the last entry of each week
RECURSIVE WeeklyMapLastEntry(_)
WeeklyMapLastEntry(ws) ==
  IF ws = <<>> THEN <<>>
  ELSE LET map == WeeklyMapLastEntry(SubSeq(ws, 1, Len(ws) - 1))
           w == ws[Len(ws)]
           ts == startOfWeek(toTs(w.date))
           new == [ts |-> ts, volume |-> tonnage(w), rpeSum |-> w.rpe, rpeCount |-> 1]
       IN  [k \in DOMAIN map \cup {ts} |-> IF k = ts THEN new ELSE map[k]]

\* the keys of a map in ascending order: .sort((a, b) => a.ts - b.ts)
RECURSIVE SortTs(_)
SortTs(keys) ==
  IF keys = {} THEN <<>>
  ELSE LET least == CHOOSE k \in keys : \A j \in keys : k <= j
       IN  <<least>> \o SortTs(keys \ {least})

\* the series weeklyVolumeSeries returns for a map: ts, volume (toFixed(0)) and
\* avgRPE (toFixed(2), in hundredths) of each week, sorted by ts
WeeklySeries(map) ==
  LET order == SortTs(DOMAIN map)
  IN  [i \in 1..Len(order) |->
         LET x == map[order[i]]
         IN  [ts |-> x.ts,
              volume |-> x.volume,
              avgRPE |-> IF x.rpeCount # 0
                         THEN (200 * x.rpeSum + x.rpeCount) \div (2 * x.rpeCount)
                         ELSE 0]]

\* a weekly series that keeps the tonnage of the last entry of each week
weeklyVolumeSeriesLastEntry(ws) == WeeklySeries(WeeklyMapLastEntry(ws))

\* weeklyVolumeSeries over allWorkouts = ws
weeklyVolumeSeriesOf(ws) == WeeklySeries(WeeklyMap(ws))

\* arr.reduce((s, w) => s + tonnage(w), 0)
RECURSIVE SumTonnage(_)
SumTonnage(arr) ==
  IF arr = <<>> THEN 0
  ELSE SumTonnage(SubSeq(arr, 1, Len(arr) - 1)) + tonnage(arr[Len(arr)])

\* inRange(ts, s, e) of compareData
inRange(ts, s, e) == ts >= s /\ ts <= e

\* calc(arr).tonnage of compareData for the range from start to end:
\* arr is allWorkouts.filter((w) => inRange(toTs(w.date), start, end))
CompareTonnage(ws, start, end) ==
  SumTonnage(SelectSeq(ws,
    LAMBDA w : inRange(toTs(w.date), parseDateInputTs(start), parseDateInputTs(end))))

\* epley1RM with 20 in the place of 30
epley1RMOver20(w, r) == IF r > 0 THEN [num |-> w * (20 + r), den |-> 20] ELSE [num |-> w, den |-> 1]

\* epley1RM with 1 - r / 30 in the place of 1 + r / 30
epley1RMShrinking(w, r) == IF r > 0 THEN [num |-> w * (30 - r), den |-> 30] ELSE [num |-> w, den |-> 1]

\* epley1RM(w, r): r > 0 ? w * (1 + r / 30) : w, as the fraction num / den
epley1RM(w, r) == IF r > 0 THEN [num |-> w * (30 + r), den |-> 30] ELSE [num |-> w, den |-> 1]

VolumeNext == UploadSets

----------------------------------------------------------------------------
\* The session matcher of the backend (merge_workout_data). backend/app.py is
\* not among the source files: the matcher is modelled from section 4.1 of the
\* specification, the setup summary (match quality scoring) and the Workout
\* type FitnessAPI declares.

\* the gaps below which a match is exact, close, approximate, in minutes
ExactGap == 5
CloseGap == 30
ApproximateGap == 45

\* the minutes at which sessions and biometric windows of the model start
Minutes == {0, 4, 5, 29, 30, 44, 45, 50}

\* the tiers of a scoring that takes a gap equal to a threshold into the
\* better tier
MatchQualityInclusive(nearest) ==
  IF ~nearest.found THEN "none"
  ELSE IF nearest.gap <= ExactGap THEN "exact"
  ELSE IF nearest.gap <= CloseGap THEN "close"
  ELSE IF nearest.gap <= ApproximateGap THEN "approximate"
  ELSE "none"

\* apple_match_quality: exact (< 5 min), close (< 30 min), approximate
\* (< 45 min), none
MatchQuality(nearest) ==
  IF ~nearest.found THEN "none"
  ELSE IF nearest.gap < ExactGap THEN "exact"
  ELSE IF nearest.gap < CloseGap THEN "close"
  ELSE IF nearest.gap < ApproximateGap THEN "approximate"
  ELSE "none"

\* the time gap between two instants
Gap(a, b) == IF a < b THEN b - a ELSE a - b

\* the closest match: the smallest gap between the session and a biometric
\* window, when there is a window at all
Nearest(session, windows) ==
  IF windows = {} THEN [found |-> FALSE, gap |-> 0]
  ELSE LET w == CHOOSE x \in windows : \A y \in windows : Gap(session, x) <= Gap(session, y)
       IN  [found |-> TRUE, gap |-> Gap(session, w)]

\* a training session is logged
HevySessionLogged ==
  /\ Cardinality(hevySessions) < MaxSessions
  /\ \E s \in Minutes \ hevySessions : hevySessions' = hevySessions \cup {s}
  /\ UNCHANGED <<appleWorkouts, merged_workouts>>
  /\ OutsideMatch

\* the biometric export brings a workout window
AppleWorkoutExported ==
  /\ Cardinality(appleWorkouts) < MaxWindows
  /\ \E a \in Minutes \ appleWorkouts : appleWorkouts' = appleWorkouts \cup {a}
  /\ UNCHANGED <<hevySessions, merged_workouts>>
  /\ OutsideMatch

\* merge_workout_data: every session gets the gap of its closest window and
\* the match quality of that gap
MergeWorkoutData ==
  /\ merged_workouts' =
       [s \in hevySessions |->
          LET nearest == Nearest(s, appleWorkouts)
          IN  [nearest |-> nearest, apple_match_quality |-> MatchQuality(nearest)]]
  /\ UNCHANGED <<hevySessions, appleWorkouts>>
  /\ OutsideMatch

MatchInit ==
  /\ hevySessions = {}
  /\ appleWorkouts = {}
  /\ merged_workouts = <<>>

MatchNext == HevySessionLogged \/ AppleWorkoutExported \/ MergeWorkoutData
----------------------------------------------------------------------------
\* The tracker component: workout files

\* the dates toLocaleDateString("en-GB") gives on two days running
Days == <<"04/11/2026", "05/11/2026">>

\* the rows the uploaded files are made of: two dated rows and an undated one
UploadRows ==
  {Row(<<"S", "q", "u", "a", "t">>, <<"3">>, <<"5">>),
   Row(<<"B", "e", "n", "c", "h", " ", "P", "r", "e", "s", "s">>, <<"1">>, <<"1">>)}
  \cup UndatedRows

\* the files of the model: what parseHevyCSV gives for them, row by row
Files ==
  UNION {[1..n -> UploadRows] : n \in 1..MaxFileRows}

\* ---- persistence: the item under STORAGE_KEY

\* localStorage.getItem(STORAGE_KEY) === null
NoItem == [kind |-> "null"]

\* a text that JSON.parse rejects
CorruptItem == [kind |-> "corrupt"]

\* nothing written yet
NoWrite == [kind |-> "none"]

\* what safeJsonParse gives for no item and for a text that does not parse
NullSaved == [parsed |-> FALSE]

\* useState measurements, in inches; a value read from a cell that is not a
\* number is NaN
MeasureKeys == {"chest", "arms", "waist", "legs", "calves", "neck", "forearms"}
DefaultMeasurements == [k \in MeasureKeys |-> "0"]
SomeMeasurements == [DefaultMeasurements EXCEPT !.chest = "42", !.waist = "34"]
NaNMeasurements == [DefaultMeasurements EXCEPT !.chest = "42", !.waist = "NaN"]

\* useState progress
NoLift == [weight |-> 0, reps |-> 0, date |-> ""]
Lifts == {"inclineBench", "squat", "shoulderPress", "pulldown", "deadlift"}
DefaultProgress == [l \in Lifts |-> NoLift]
SomeProgress ==
  [DefaultProgress EXCEPT !.squat = [weight |-> 5, reps |-> 3, date |-> "2025-01-06"]]

\* JSON.stringify of a number: NaN is written as null
JsonNumber(v) == IF v = "NaN" THEN "null" ELSE v

\* the payload of the save effect
Payload(ws, ms, pr, overrides) ==
  [workouts |-> ws, measurements |-> ms, progress |-> pr,
   muscleGroupOverrides |-> overrides]

\* JSON.stringify(payload): the text, given by the value JSON.parse reads from it
JSONstringify(payload) ==
  [kind |-> "json",
   value |-> [payload EXCEPT !.measurements =
                [k \in MeasureKeys |-> JsonNumber(payload.measurements[k])]]]

\* safeJsonParse(raw): null for no item and for a text that does not parse
safeJsonParse(raw) == IF raw.kind = "json" THEN raw.value ELSE NullSaved

\* saved?.key, when truthy, else the value the state has
SavedOr(saved, key, current) ==
  IF key \in DOMAIN saved THEN saved[key] ELSE current

\* a save effect that does not look at `hydrated`
saveEffectUnguarded(h, payload) == <<JSONstringify(payload)>>

\* the save effect: if (!hydrated) return; localStorage.setItem(STORAGE_KEY,
\* JSON.stringify(payload)). The texts it writes: none or one.
saveEffect(h, payload) == IF ~h THEN <<>> ELSE <<JSONstringify(payload)>>

\* localStorage.setItem(STORAGE_KEY, text) for each text of `texts`
SetItem(texts) ==
  /\ localStorage' = IF texts = <<>> THEN localStorage ELSE texts[1]
  /\ firstWrite' = IF texts # <<>> /\ firstWrite = NoWrite THEN texts[1] ELSE firstWrite

\* the user picks a workout file: reader.onload of handleWorkoutUpload, and the
\* save effect of the render that follows
UploadFile ==
  /\ uploadsDone < MaxUploads
  /\ \E file \in Files :
       /\ handleWorkoutUpload(file)
       /\ lastFile' = file
  /\ uploadsDone' = uploadsDone + 1
  /\ memo' = Render(workouts', muscleGroupOverrides', TRUE, FALSE)
  /\ SetItem(saveEffect(hydrated,
                        Payload(workouts', measurements, progress, muscleGroupOverrides')))
  /\ UNCHANGED <<today, hydrated, measurements, progress, savedAtStart>>
  /\ OutsideTracker

\* midnight passes
DayPasses ==
  /\ today = Days[1]
  /\ today' = Days[2]
  /\ UNCHANGED <<lastFile, uploadsDone, muscleVars, persistVars>>
  /\ OutsideTracker

UploadInit ==
  /\ today = Days[1]
  /\ lastFile = <<>>
  /\ uploadsDone = 0

UploadNext == UploadFile \/ DayPasses \/ UploadStatusTimeout

\* ---- persistence: the effects

\* the entry of the Squat row, as a saved history holds it
SavedWorkouts ==
  [c \in WorkoutCategory |->
     IF c = "push" THEN <<Entries[Row(<<"S", "q", "u", "a", "t">>, <<"3">>, <<"5">>)]>>
     ELSE <<>>]

\* an override map with one entry
SavedOverrides == (<<"S", "q", "u", "a", "t">> :> "Arms")

\* the payloads an earlier run of the component has saved, and one of a version
\* that knew no overrides
SavedPayloads ==
  {Payload(ws, ms, pr, ov) :
     ws \in {[c \in WorkoutCategory |-> <<>>], SavedWorkouts},
     ms \in {DefaultMeasurements, SomeMeasurements},
     pr \in {DefaultProgress, SomeProgress},
     ov \in {<<>>, SavedOverrides}}
  \cup {[workouts |-> SavedWorkouts, measurements |-> SomeMeasurements,
         progress |-> SomeProgress]}

\* what the browser may hold under STORAGE_KEY when the component mounts
StoredItems == {NoItem, CorruptItem} \cup {JSONstringify(p) : p \in SavedPayloads}

\* the effects of the first commit, in the order of the source: the hydration
\* effect (read the item, set the saved state, setHydrated(true)), then the
\* save effect with the values of the first render
FirstCommitEffects ==
  /\ ~hydrated
  /\ LET saved == safeJsonParse(localStorage)
     IN  /\ workouts' = SavedOr(saved, "workouts", workouts)
         /\ measurements' = SavedOr(saved, "measurements", measurements)
         /\ progress' = SavedOr(saved, "progress", progress)
         /\ muscleGroupOverrides' =
              SavedOr(saved, "muscleGroupOverrides", muscleGroupOverrides)
  /\ hydrated' = TRUE
  /\ SetItem(saveEffect(hydrated,
                        Payload(workouts, measurements, progress, muscleGroupOverrides)))
  /\ memo' = Render(workouts', muscleGroupOverrides', TRUE, TRUE)
  /\ UNCHANGED <<uploadStatus, savedAtStart, uploadVars>>
  /\ OutsideTracker

\* the effects of the render the hydration effect caused: the save effect, its
\* dependency `hydrated` having changed
HydratedRenderEffects ==
  /\ hydrated
  /\ firstWrite = NoWrite
  /\ SetItem(saveEffect(hydrated,
                        Payload(workouts, measurements, progress, muscleGroupOverrides)))
  /\ UNCHANGED <<hydrated, measurements, progress, savedAtStart, muscleVars, uploadVars>>
  /\ OutsideTracker

\* the effects of the renders so far have run: the component takes user events
EffectsFlushed == hydrated /\ firstWrite # NoWrite

\* a workout file is uploaded to the mounted component
MountedUpload ==
  /\ EffectsFlushed
  /\ UploadFile

\* handleMeasurementsUpload: setMeasurements(latest), and the save effect of the
\* render that follows
MeasurementsUpload ==
  /\ EffectsFlushed
  /\ \E latest \in {SomeMeasurements, NaNMeasurements} :
       /\ latest # measurements
       /\ measurements' = latest
  /\ SetItem(saveEffect(hydrated,
                        Payload(workouts, measurements', progress, muscleGroupOverrides)))
  /\ UNCHANGED <<hydrated, progress, savedAtStart, muscleVars, uploadVars>>
  /\ OutsideTracker

\* the first render: every state at its default, the item as the browser has it
PersistInit ==
  /\ hydrated = FALSE
  /\ localStorage \in StoredItems
  /\ measurements = DefaultMeasurements
  /\ progress = DefaultProgress
  /\ savedAtStart = localStorage
  /\ firstWrite = NoWrite

\* the persistence at rest: nothing stored, no effect run
PersistIdle == PersistInit /\ localStorage = NoItem

PersistNext ==
  \/ FirstCommitEffects
  \/ HydratedRenderEffects
  \/ MountedUpload
  \/ MeasurementsUpload
----------------------------------------------------------------------------
\* POST /api/health/ingest: health.js (src/unnamed/part_003), index.js

\* the values a header or a query parameter of a request may have: absent, a
\* string, or (for a query parameter given as token[]=...) an array
UndefinedValue == [type |-> "undefined", text |-> ""]
Str(text) == [type |-> "string", text |-> text]
ArrayOf(text) == [type |-> "array", text |-> text]

\* the token of the deployment, and the value of an unset variable
Secret == "s3cret"
Unset == ""

\* ToBoolean of a request value: undefined and the empty string are falsy
Truthy(v) == v.type = "array" \/ (v.type = "string" /\ v.text # "")

\* a || b
Or(a, b) == IF Truthy(a) THEN a ELSE b

\* the x-health-token headers and the token query parameters of the requests
TokenHeaders == {UndefinedValue, Str(""), Str(Secret), Str("wrong"), Str("S3CRET")}
TokenQueries == {UndefinedValue, Str(Secret), Str("wrong"), ArrayOf(Secret)}

\* the source query parameters and the x-health-source headers of the requests
SourceQueries == {UndefinedValue, Str("shortcut")}
SourceHeaders == {UndefinedValue, Str("watch")}

\* a token check that compares with == : an array of the one token passes
verifyHealthTokenLoose(expected, req) ==
  \/ expected = Unset
  \/ LET got == Or(req.header, req.query)
     IN  Truthy(got) /\ got.text = expected

\* verifyHealthToken(req): if(!expected) return true;
\* got = req.header('x-health-token') || req.query.token; return got && got===expected
verifyHealthToken(expected, req) ==
  \/ expected = Unset
  \/ LET got == Or(req.header, req.query)
     IN  Truthy(got) /\ got = Str(expected)

\* no request yet
NoIngest ==
  [request |-> [header |-> UndefinedValue, query |-> UndefinedValue],
   status |-> 0, ok |-> FALSE, rowsBefore |-> <<>>, row |-> [source |-> "", raw_json |-> ""]]

\* app.post('/api/health/ingest', ...): 401 bad_token, or the INSERT and ok:true
PostHealthIngest ==
  /\ \E header \in TokenHeaders, query \in TokenQueries,
        sourceQuery \in SourceQueries, sourceHeader \in SourceHeaders :
       LET req == [header |-> header, query |-> query]
           source == Or(Or(sourceQuery, sourceHeader), Str("unknown")).text
           row == [source |-> source, raw_json |-> "{}"]
       IN  IF ~verifyHealthToken(HEALTH_INGEST_TOKEN, req)
             THEN /\ lastIngest' = [request |-> req, status |-> 401, ok |-> FALSE,
                                    rowsBefore |-> health_ingest, row |-> row]
                  /\ UNCHANGED health_ingest
             ELSE /\ Len(health_ingest) < MaxIngest
                  /\ health_ingest' = Append(health_ingest, row)
                  /\ lastIngest' = [request |-> req, status |-> 200, ok |-> TRUE,
                                    rowsBefore |-> health_ingest, row |-> row]
  /\ UNCHANGED HEALTH_INGEST_TOKEN
  /\ OutsideIngest

\* the service starts with the variable set or not, and an empty table
IngestInit ==
  /\ HEALTH_INGEST_TOKEN \in {Unset, Secret}
  /\ health_ingest = <<>>
  /\ lastIngest = NoIngest

\* the service at rest
IngestIdle == IngestInit /\ HEALTH_INGEST_TOKEN = Unset

IngestNext == PostHealthIngest
----------------------------------------------------------------------------
\* Specifications

\* the upload, persistence and ingest components at rest
RestIdle == UploadInit /\ PersistIdle /\ IngestIdle

InitHook == HookInit /\ CacheInit /\ SyncInit /\ MuscleInit /\ MatchInit /\ RestIdle

NextHook == HookNext

SpecHook == InitHook /\ [][NextHook]_vars

InitCache == HookIdle /\ CacheInit /\ SyncInit /\ MuscleInit /\ MatchInit /\ RestIdle

NextCache == CacheNext

SpecCache == InitCache /\ [][NextCache]_vars

InitSync == HookIdle /\ CacheInit /\ SyncInit /\ MuscleInit /\ MatchInit /\ RestIdle

NextSync == SyncNext

SpecSync == InitSync /\ [][NextSync]_vars

InitMuscle == HookIdle /\ CacheInit /\ SyncInit /\ MuscleInit /\ MatchInit /\ RestIdle

NextMuscle == MuscleNext

SpecMuscle == InitMuscle /\ [][NextMuscle]_vars


InitVolume == HookIdle /\ CacheInit /\ SyncInit /\ MuscleInit /\ MatchInit /\ RestIdle

NextVolume == VolumeNext

SpecVolume == InitVolume /\ [][NextVolume]_vars

InitMatch == HookIdle /\ CacheInit /\ SyncInit /\ MuscleInit /\ MatchInit /\ RestIdle

NextMatch == MatchNext

SpecMatch == InitMatch /\ [][NextMatch]_vars

InitOverlap == HookIdle /\ CacheInit /\ OverlapInit /\ MuscleInit /\ MatchInit /\ RestIdle

NextOverlap == OverlapNext

SpecOverlap == InitOverlap /\ [][NextOverlap]_vars

InitHandover == HookIdle /\ CacheInit /\ SyncInit /\ MuscleInit /\ MatchInit /\ RestIdle

NextHandover == HandoverNext

SpecHandover == InitHandover /\ [][NextHandover]_vars

InitUpload == HookIdle /\ CacheInit /\ SyncInit /\ MuscleInit /\ MatchInit /\ RestIdle

NextUpload == UploadNext

SpecUpload == InitUpload /\ [][NextUpload]_vars

InitPersist ==
  HookIdle /\ CacheInit /\ SyncInit /\ MuscleInit /\ MatchInit
  /\ UploadInit /\ PersistInit /\ IngestIdle

NextPersist == PersistNext

SpecPersist == InitPersist /\ [][NextPersist]_vars

InitIngest ==
  HookIdle /\ CacheInit /\ SyncInit /\ MuscleInit /\ MatchInit
  /\ UploadInit /\ PersistIdle /\ IngestInit

NextIngest == IngestNext

SpecIngest == InitIngest /\ [][NextIngest]_vars
----------------------------------------------------------------------------
\* Claims about useWorkoutData and FitnessAPI.getWorkouts

Outcome(i) == completed[i][2]

LastOutcome == Outcome(Len(completed))

OkIds == {completed[i][1] : i \in {j \in 1..Len(completed) : Outcome(j) = "ok"}}

HasRefreshParam(q) == \E kv \in q : kv[1] = "refresh"

\* C1: single-flight. At every moment at most one workouts request per cache key
\* (one `days` value) is in flight; a further trigger does not start a second one.
C1_SingleFlightPerKey ==
  \A d \in DaysSet : Cardinality({r \in inflight : r.days = d}) <= 1

\* C2: an older response never overwrites a newer one. While the hook is mounted,
\* the result held in `data` is that of the latest-issued request among those that
\* completed successfully, whatever the completion order.
C2_NewestResultHeld ==
  (phase = "mounted" /\ data # NoData) => \A i \in OkIds : i <= data.req

\* C3: stale-on-failure. A fetch that fails leaves `data` and `lastUpdated` as they
\* were (the earlier result, or null when there is none) and sets `error`.
C3_StaleOnFailure ==
  [][ ( /\ phase = "mounted"
        /\ Len(completed') = Len(completed) + 1
        /\ completed'[Len(completed')][2] = "fail" )
      => ( /\ data' = data
           /\ lastUpdated' = lastUpdated
           /\ error' # NoError ) ]_vars

\* C3 witness: a failure arrived after an earlier success; the earlier result is
\* still held next to the error.
C3_Witness ==
  /\ phase = "mounted"
  /\ Len(completed) >= 2
  /\ LastOutcome = "fail"
  /\ \E i \in 1..(Len(completed) - 1) : Outcome(i) = "ok"
  /\ data # NoData
  /\ lastUpdated # NoDate
  /\ error # NoError

\* C4: "no data yet" and "fetch failed" are never conflated. Whenever no fetch is in
\* flight, `error` is non-null exactly when the most recently completed fetch
\* failed, and after a success `data` is non-null (also for an empty response).
C4_ErrorIffLastFetchFailed ==
  (phase = "mounted" /\ inflight = {} /\ completed # <<>>) =>
    /\ (error # NoError) <=> (LastOutcome = "fail")
    /\ (LastOutcome = "ok") => data # NoData

\* C5: every workouts request of the hook is a forced refresh (fetchData calls
\* getWorkouts with refresh = true), and getWorkouts puts refresh=1 in the query
\* exactly when refresh is true.
C5_AlwaysForcedRefresh ==
  /\ \A r \in inflight : r.refresh /\ <<"refresh", "1">> \in r.query
  /\ \A d \in DaysSet, f \in BOOLEAN :
       /\ (<<"refresh", "1">> \in GetWorkouts(d, f)) <=> f
       /\ HasRefreshParam(GetWorkouts(d, f)) <=> f
       /\ <<"days", d>> \in GetWorkouts(d, f)

\* C5 witness: the initial load, an interval tick and a manual refresh have all
\* issued their request.
C5_Witness ==
  /\ Cardinality(inflight) >= 3
  /\ timers # <<>>


\* C18: the frontend auto-refreshes every refreshInterval (default 2 minutes).
\* While the hook is mounted with autoRefresh enabled exactly one timer is
\* active, set with the refreshInterval and the days of the current render, and
\* its tick can issue a fetch; with autoRefresh disabled, before the effects ran
\* and after unmount no timer is active and no interval tick can happen; so at
\* most one timer is active at any time. The first render has the default
\* refreshInterval of 2 minutes.
C18_OneTimerWhileAutoRefresh ==
  /\ Len(timers) <= 1
  /\ (phase = "mounted" /\ autoRefresh) =>
       /\ timers = <<[days |-> days, delay |-> refreshInterval]>>
       /\ nextReq <= MaxReq => ENABLED IntervalTick
  /\ (phase # "mounted" \/ ~autoRefresh) =>
       /\ timers = <<>>
       /\ ~ENABLED IntervalTick
  /\ HookInit => refreshInterval = 2 * 60 * 1000

\* C18, every tick fetches: a step of the interval callback issues one request,
\* with refresh=1, for the days of the render that set the timer
C18_TickFetches ==
  [][IntervalTick =>
       \E r \in inflight' \ inflight :
         /\ r.refresh
         /\ r.days = days
         /\ inflight' = inflight \cup {r}]_vars

\* C18, reached: the one timer of a mounted hook after a change of
\* refreshInterval and of days, with a request in flight
C18_Witness ==
  /\ phase = "mounted"
  /\ autoRefresh
  /\ refreshInterval # DefaultRefreshInterval
  /\ timers = <<[days |-> days, delay |-> refreshInterval]>>
  /\ days # 90
  /\ inflight # {}

\* C24: while the hook is mounted, `loading` is true whenever at least one
\* fetch is in flight and false whenever none is, for every interleaving of
\* overlapping fetches started by the initial load, interval ticks and manual
\* refresh.
C24_LoadingIffInFlight ==
  phase = "mounted" => (loading <=> inflight # {})
\* C6: per cache key, a request without the forced-refresh flag that finds a FRESH
\* entry (age < TTL) is answered with the entry's original computed-at, so two rapid
\* requests carry the same meta.fetched_at; a forced refresh is answered with a
\* computed-at strictly later than that of the entry it replaces.
C6_HitKeepsComputedAtForcedAdvances ==
  served # NoResponse =>
    /\ ( /\ ~served.refresh
         /\ served.before # Empty
         /\ served.asked_at - served.before.computed_at < CacheTtl )
       => served.meta.fetched_at = served.before.computed_at
    /\ (served.refresh /\ served.before # Empty)
       => served.meta.fetched_at > served.before.computed_at
    /\ served.meta.days_requested = served.days
    /\ cache[served.days].computed_at = served.meta.fetched_at

\* C6 witness: a forced refresh has replaced an entry that was still FRESH and
\* carries a later computed-at.
C6_Witness ==
  /\ served.refresh
  /\ served.before # Empty
  /\ served.asked_at - served.before.computed_at < CacheTtl
  /\ served.meta.fetched_at > served.before.computed_at

\* C6 second witness state: a cache hit within the TTL, after time has passed
C6_HitReached ==
  /\ served # NoResponse
  /\ ~served.refresh
  /\ served.before # Empty
  /\ served.asked_at > served.before.computed_at
  /\ served.meta.fetched_at = served.before.computed_at


----------------------------------------------------------------------------
\* Claims about the Hevy sync service

\* the ids that have a row in hevy_workouts
Stored == {i \in RowKeys : hevy_workouts[i].present}

\* C7: the paginated upstream is consumed without assuming a total count and
\* tolerating partial pages. initialBackfill and incrementalSync ask for the pages
\* 1, 2, 3, ... in turn, end only after a page that came back empty (every page of
\* the model is shorter than pageSize), and after each page of the backfill every id
\* seen so far has its row, holding a record of that id.
C7_PagesUntilEmpty ==
  /\ backfill.pc = "awaitPage" => backfill.page = backfill.served + 1
  /\ backfill.pc = "done" => backfill.lastLen = 0 /\ backfill.page = backfill.served
  /\ backfill.lastLen < PageSize
  /\ \A i \in backfill.seen :
       /\ i \in Stored
       /\ WorkoutIdOf(hevy_workouts[i].payload) = i
  /\ \A p \in SyncProcs :
       /\ sync[p].pc = "awaitEvents" => sync[p].page = sync[p].served + 1
       /\ sync[p].pc = "awaitWorkout" => sync[p].page = sync[p].served
       /\ sync[p].pc = "done" => sync[p].lastLen = 0 /\ sync[p].page = sync[p].served
       /\ sync[p].lastLen < PageSize

\* C7 witness: the backfill has ended after two partial pages and an empty one,
\* and every workout of the upstream is stored.
C7_Witness ==
  /\ backfill.pc = "done"
  /\ backfill.served = 3
  /\ backfill.seen = Ids
  /\ Stored = Ids

\* C7, incrementalSync: a sync has ended after two partial pages and an empty one
C7_SyncPagesReached ==
  \E p \in SyncProcs : sync[p].pc = "done" /\ sync[p].served = 3 /\ sync[p].listed = 3

\* C8: one malformed record does not abort the pipeline. A record without id,
\* workout_id and workoutId is dropped (it gets no row), the other records of its
\* page and of the later pages are stored, the backfill fails only when listWorkouts
\* throws, and a backfill that ends has written the cursor.
C8_BadRecordDropped ==
  /\ Null \notin Stored
  /\ backfill.seen \subseteq Stored
  /\ backfill.pc = "failed" => backfill.threw
  /\ backfill.pc = "done" => cursor # NoCursor

\* C8 witness: a page held a record without an id next to a record with one, a
\* later page brought the other workout, and the backfill has ended.
C8_Witness ==
  /\ backfill.pc = "done"
  /\ backfill.bad >= 1
  /\ backfill.seen = Ids
  /\ Stored = Ids
  /\ cursor # NoCursor


\* C19: the sync cursor hevy_last_sync_iso never moves backwards. No step
\* lowers it: after any incrementalSync completes its value is >= the value
\* before, also when a cron-scheduled sync and a manually triggered one overlap
\* and finish in either order.
C19_CursorNeverBackwards == [][cursor' >= cursor]_vars

\* the rows of hevy_events that record the upstream event ev
RECURSIVE CopiesOf(_, _)
CopiesOf(ev, rows) ==
  IF rows = {} THEN 0
  ELSE LET r == CHOOSE x \in rows : TRUE
       IN  (IF r.raw = ev THEN CopiesIn(r, hevy_events) ELSE 0) + CopiesOf(ev, rows \ {r})

\* C20: each upstream workout event is recorded in hevy_events at most once,
\* over any sequence of incrementalSync runs, including runs that fail part-way
\* and are retried and runs that overlap.
C20_EventRecordedOnce ==
  \A i \in 1..Len(hevyUpstream) : CopiesOf(hevyUpstream[i], BagToSet(hevy_events)) <= 1

\* the events of the upstream's log a run starting now would be given, over all
\* its pages
Requestable(inclusive) ==
  LET evs == GetWorkoutEvents(GetMeta(Epoch), 1, Len(hevyUpstream) + 1, inclusive)
  IN  {evs[i] : i \in 1..Len(evs)}

\* C21: a run of incrementalSync that fails part-way (getWorkoutEvents or
\* getWorkout throws) leaves the cursor at the value it had when the run
\* started, so the next run asks for the events after the same `since` and none
\* of the events after it is skipped, those after the failure point included;
\* the endpoint answers 500 with ok:false. Stated of the POST caller while the
\* cron job has not run.
C21_FailedSyncKeepsCursor ==
  (sync["manual"].pc = "failed" /\ sync["cron"].pc = "idle") =>
    /\ GetMeta(Epoch) = sync["manual"].since
    /\ \A inclusive \in BOOLEAN : \A i \in 1..Len(hevyUpstream) :
         hevyUpstream[i].occurred_at > sync["manual"].since
           => hevyUpstream[i] \in Requestable(inclusive)
    /\ SyncResponse(sync["manual"]) = [status |-> 500, ok |-> FALSE]

\* C21 witness: the POST run recorded an event newer than its `since`, then
\* getWorkout threw; an event logged after that is waiting upstream.
C21_Witness ==
  /\ sync["manual"].pc = "failed"
  /\ sync["cron"].pc = "idle"
  /\ sync["manual"].listed >= 1
  /\ sync["manual"].newestSeen > sync["manual"].since
  /\ BagCardinality(hevy_events) >= 1
  /\ Len(hevyUpstream) = 2
  /\ hevyUpstream[2].occurred_at > sync["manual"].newestSeen
  /\ GetMeta(Epoch) = sync["manual"].since

\* the row of hevy_workouts a workout the upstream holds is stored as
MirrorRow(id) ==
  IF id \in UpstreamIds
    THEN [present |-> TRUE, updated_at |-> UpstreamWorkout(id).updated_at,
          payload |-> UpstreamWorkout(id)]
    ELSE NoRow

\* C22: no upstream change is lost between backfill and incremental sync. With
\* workouts created, updated or deleted upstream at any time while
\* initialBackfill is paging, once initialBackfill has completed and a
\* following incrementalSync has completed with no further upstream change,
\* hevy_workouts holds exactly the upstream's current workouts with their
\* current payloads.
C22_NoChangeLost ==
  (backfill.pc = "done" /\ sync["manual"].pc = "done") =>
    /\ \A id \in Ids : hevy_workouts[id] = MirrorRow(id)
    /\ ~hevy_workouts[Null].present

\* C23: after an incrementalSync that handled its events in order,
\* hevy_workouts reflects the last event of each workout: a workout whose last
\* event is a delete has no row, a workout whose last event is not a delete has
\* its row, keyed by its id, holding the payload getWorkout answered for that
\* event, and the rows of workouts without an event are as the run found them.
C23_LastEventWins ==
  \A p \in DOMAIN sync :
    sync[p].pc = "done" =>
      /\ \A id \in Ids :
           LET last == sync[p].last[id]
           IN  /\ last.kind = "deleted" => hevy_workouts[id] = NoRow
               /\ last.kind = "fetched" =>
                    /\ hevy_workouts[id].present
                    /\ hevy_workouts[id].payload = last.full
               /\ last.kind = "none" => hevy_workouts[id] = sync[p].before[id]
      /\ hevy_workouts[Null] = sync[p].before[Null]

\* C23 witness: a completed run whose last event of w1 was a delete of a row the
\* backfill had stored, after an update of w1 earlier in the same run, and whose
\* last event of w2 was a create.
C23_Witness ==
  /\ sync["manual"].pc = "done"
  /\ sync["manual"].before["w1"].present
  /\ sync["manual"].last["w1"].kind = "deleted"
  /\ sync["manual"].last["w2"].kind = "fetched"
  /\ sync["manual"].listed = 3
  /\ hevy_workouts["w1"] = NoRow
  /\ hevy_workouts["w2"].present
----------------------------------------------------------------------------
\* Claims about the muscle-group distribution

\* the exercise names the uploads of the model can bring
Exercises == {Entries[row].exercise : row \in Rows}

\* the sum of tonnage(w) over the entries of ws that inferMuscleGroup puts in g
RECURSIVE GroupTonnage(_, _, _)
GroupTonnage(overrides, ws, g) ==
  IF ws = <<>> THEN 0
  ELSE GroupTonnage(overrides, Tail(ws), g)
       + (IF inferMuscleGroup(overrides, Head(ws).exercise) = g THEN tonnage(Head(ws)) ELSE 0)

\* the volume the distribution reports for group g: 0 when it has no entry
Reported(g) ==
  LET hits == {i \in 1..Len(muscleGroupTonnage) : muscleGroupTonnage[i].name = g}
  IN  IF hits = {} THEN 0 ELSE muscleGroupTonnage[CHOOSE i \in hits : TRUE].value

\* C9: Calves is always folded into Legs in the muscle-group distribution. For
\* every workout history and override map the distribution has no Calves entry
\* with nonzero volume, and the Legs entry holds the volume of the leg exercises
\* plus the volume of the calf exercises.
C9_CalvesFoldedIntoLegs ==
  /\ Reported("Calves") = 0
  /\ Reported("Legs") = GroupTonnage(muscleGroupOverrides, allWorkouts, "Legs")
                        + GroupTonnage(muscleGroupOverrides, allWorkouts, "Calves")

\* C10: the override lookup takes precedence over the keyword rules.
\* inferMuscleGroup returns the override's group for every exercise name that is
\* in the override map, whatever keywords the name contains, and the result of
\* the keyword rules (first matching rule, else Other) for every name that is
\* not in the map.
C10_OverrideElseKeywordRules ==
  \A ex \in Exercises :
    inferMuscleGroup(muscleGroupOverrides, ex) =
      IF ex \in DOMAIN muscleGroupOverrides
      THEN muscleGroupOverrides[ex]
      ELSE KeywordGroup(ToLowerCase(ex))

\* C11: overrides apply retroactively to the entire history. After any sequence
\* of saveOverride, removeOverride and uploads, the distribution the component
\* holds equals the one computed from scratch over all stored entries under the
\* current override map.
C11_OverridesRetroactive ==
  /\ memo.allWorkouts = AllWorkoutsOf(workouts)
  /\ memo.inferMuscleGroup = muscleGroupOverrides
  /\ muscleGroupTonnage = muscleGroupTonnageOf(muscleGroupOverrides, AllWorkoutsOf(workouts))

\* C11 witness: an entry that was uploaded before its override was saved (the
\* override panel offers only exercises of the history) is counted under the
\* override's group, which is not its keyword group.
C11_Witness ==
  \E ex \in DOMAIN muscleGroupOverrides :
    /\ muscleGroupOverrides[ex] # KeywordGroup(ToLowerCase(ex))
    /\ \E i \in 1..Len(allWorkouts) : allWorkouts[i].exercise = ex /\ tonnage(allWorkouts[i]) > 0
    /\ Reported(muscleGroupOverrides[ex]) > 0
    /\ Reported(KeywordGroup(ToLowerCase(ex))) = 0


\* the sum of the pct fields of the distribution, in tenths of a percent
RECURSIVE SumPct(_)
SumPct(items) == IF items = <<>> THEN 0 ELSE Head(items).pct + SumPct(Tail(items))

Abs(n) == IF n < 0 THEN -n ELSE n

\* C12: whenever total tonnage is > 0, the percentages reported across all
\* muscle groups sum to 100 within rounding tolerance. Every reported group has
\* total = the sum of the reported values, its pct is value / total * 100 within
\* half a tenth of a percent, and the sum of the pcts is within half a tenth per
\* reported group of 100.
C12_PercentagesSumTo100 ==
  muscleGroupTonnage # <<>> =>
    LET total == SumValues(muscleGroupTonnage)
        n == Len(muscleGroupTonnage)
    IN  /\ total > 0
        /\ \A i \in 1..n :
             /\ muscleGroupTonnage[i].total = total
             /\ Abs(2 * total * muscleGroupTonnage[i].pct
                    - 2000 * muscleGroupTonnage[i].value) <= total
        /\ 2 * Abs(SumPct(muscleGroupTonnage) - 1000) <= n

\* C12, reached: two groups are reported and their rounded percentages do not
\* sum to exactly 100
C12_Witness ==
  /\ Len(muscleGroupTonnage) >= 2
  /\ SumPct(muscleGroupTonnage) # 1000

----------------------------------------------------------------------------
\* Claims about volume and the estimated one-rep maximum

\* the volume the documentation gives a set: weight x reps when both are
\* positive, else 0
PositiveVolume(w) == IF w.reps > 0 /\ w.weight > 0 THEN w.weight * w.reps ELSE 0

RECURSIVE SumPositiveVolume(_)
SumPositiveVolume(ws) ==
  IF ws = <<>> THEN 0 ELSE PositiveVolume(Head(ws)) + SumPositiveVolume(Tail(ws))

\* C13: volume is the sum of weight_kg x reps over the sets where both are
\* present and positive. A set whose weight or reps is missing, zero or not
\* positive contributes exactly 0 to total volume, every other set contributes
\* exactly weight x reps.
C13_VolumeOfPositiveSets ==
  /\ \A i \in 1..Len(allWorkouts) : tonnage(allWorkouts[i]) = PositiveVolume(allWorkouts[i])
  /\ SumTonnage(allWorkouts) = SumPositiveVolume(allWorkouts)

\* the orderings of the entries of ws
Orderings(ws) ==
  LET n == Len(ws)
      bijections == {f \in [1..n -> 1..n] : \A i, j \in 1..n : f[i] = f[j] => i = j}
  IN  {[i \in 1..n |-> ws[f[i]]] : f \in bijections}

C15_EpleyValue ==
  \A i \in 1..Len(allWorkouts) :
    LET w == allWorkouts[i]
        est == epley1RM(w.weight, w.reps)
    IN  w.reps > 0 => 30 * est.num = w.weight * (30 + w.reps) * est.den

\* C15, reached: an entry with reps > 0 and a weight that is not 0
C15_Witness ==
  \E i \in 1..Len(allWorkouts) : allWorkouts[i].reps > 0 /\ allWorkouts[i].weight # 0

\* a / b <= c / d for fractions with positive denominators
FracLeq(a, c) == a.num * c.den <= c.num * a.den

\* C16: estimated_1rm(weight, reps) is monotonically non-decreasing in reps for
\* a fixed weight, for all reps1 <= reps2 including reps <= 0, and equals weight
\* when reps = 0.
C16_MonotoneInReps ==
  \A i, j \in 1..Len(allWorkouts) :
    LET a == allWorkouts[i]
        b == allWorkouts[j]
    IN  /\ (a.weight = b.weight /\ a.reps <= b.reps) =>
             FracLeq(epley1RM(a.weight, a.reps), epley1RM(b.weight, b.reps))
        /\ a.reps = 0 => epley1RM(a.weight, a.reps) = [num |-> a.weight, den |-> 1]

\* C16, amended: the same for a fixed weight that is not negative
C16_MonotoneInRepsNonNegativeWeight ==
  \A i, j \in 1..Len(allWorkouts) :
    LET a == allWorkouts[i]
        b == allWorkouts[j]
    IN  /\ (a.weight = b.weight /\ a.weight >= 0 /\ a.reps <= b.reps) =>
             FracLeq(epley1RM(a.weight, a.reps), epley1RM(b.weight, b.reps))
        /\ a.reps = 0 => epley1RM(a.weight, a.reps) = [num |-> a.weight, den |-> 1]

\* C16, reached: one positive weight logged with reps <= 0 and with reps > 0,
\* the second estimate above the first
C16_Witness ==
  \E i, j \in 1..Len(allWorkouts) :
    /\ allWorkouts[i].weight = allWorkouts[j].weight
    /\ allWorkouts[i].weight > 0
    /\ allWorkouts[i].reps <= 0
    /\ allWorkouts[j].reps > 0
    /\ ~FracLeq(epley1RM(allWorkouts[j].weight, allWorkouts[j].reps),
                epley1RM(allWorkouts[i].weight, allWorkouts[i].reps))

----------------------------------------------------------------------------
\* Claims about the match quality

\* the order of the tiers, best first
TierRank(q) == CASE q = "exact" -> 0 [] q = "close" -> 1 [] q = "approximate" -> 2 [] q = "none" -> 3

\* C17: match quality is a total, pure function of the time gap between a
\* session and its nearest biometric workout window. gap < 5 min gives exact,
\* 5 <= gap < 30 gives close, 30 <= gap < 45 gives approximate, gap >= 45 or no
\* biometric window at all gives none; the four tiers partition all gaps and
\* the tier never improves as the gap grows.
C17_MatchQualityTiers ==
  /\ \A s \in DOMAIN merged_workouts :
       LET m == merged_workouts[s]
           q == m.apple_match_quality
           gap == m.nearest.gap
       IN  /\ q \in {"exact", "close", "approximate", "none"}
           /\ q = "exact" <=> (m.nearest.found /\ gap < 5)
           /\ q = "close" <=> (m.nearest.found /\ 5 <= gap /\ gap < 30)
           /\ q = "approximate" <=> (m.nearest.found /\ 30 <= gap /\ gap < 45)
           /\ q = "none" <=> (~m.nearest.found \/ gap >= 45)
  /\ \A s, t \in DOMAIN merged_workouts :
       LET m == merged_workouts[s]
           n == merged_workouts[t]
       IN  (m.nearest.found /\ n.nearest.found /\ m.nearest.gap <= n.nearest.gap) =>
             TierRank(m.apple_match_quality) <= TierRank(n.apple_match_quality)

\* C17, reached: one merge holds a session at gap 5 of its nearest window,
\* matched close, and a session 45 minutes or more from it, matched none
C17_Witness ==
  \E s, t \in DOMAIN merged_workouts :
    /\ merged_workouts[s].nearest.found
    /\ merged_workouts[s].nearest.gap = 5
    /\ merged_workouts[s].apple_match_quality = "close"
    /\ merged_workouts[t].nearest.found
    /\ merged_workouts[t].nearest.gap >= 45
    /\ merged_workouts[t].apple_match_quality = "none"
----------------------------------------------------------------------------
\* Claims: workout files

\* no two entries of the list have the same (date, exercise, weight, reps, rpe)
NoDuplicateKeys(ws) ==
  \A i, j \in 1..Len(ws) : DedupKey(ws[i]) = DedupKey(ws[j]) => i = j

\* the list `before` is the front of the list `after`
FrontOf(before, after) ==
  /\ Len(before) <= Len(after)
  /\ SubSeq(after, 1, Len(before)) = before

\* C26: workout upload is idempotent. Uploading the same file a second time
\* leaves the workouts of all four categories as they were after the first
\* upload; after any sequence of uploads no category holds two entries with the
\* same (date, exercise, weight, reps, rpe), and the entries a category held
\* before an upload stay at its front, in their order.
C26_UploadIdempotent ==
  [][/\ (uploadsDone' = uploadsDone + 1 /\ lastFile' = lastFile) => workouts' = workouts
     /\ \A c \in WorkoutCategory :
          /\ NoDuplicateKeys(workouts'[c])
          /\ FrontOf(workouts[c], workouts'[c])]_vars

\* C27: after an upload into an empty history the number of entries reported
\* as uploaded equals the number of entries added to the history: every row of
\* the file has an entry of its own in exactly one of the four categories.
C27_ReportedCountIsAdded ==
  (uploadsDone = 1 /\ uploadStatus.type = "success") =>
    /\ uploadStatus.count = Len(AllWorkoutsOf(workouts))
    /\ uploadStatus.count = Len(lastFile)
----------------------------------------------------------------------------
\* Claims: persistence

\* the four pieces of state the item keeps
SavedKeys == {"workouts", "measurements", "progress", "muscleGroupOverrides"}

\* C25: saved data is never clobbered by defaults on start-up. The item under
\* the storage key is not written before the hydration effect has applied the
\* saved state, and the first write after the mount contains the workouts,
\* measurements, progress and overrides that were saved before.
C25_SavedDataKept ==
  /\ ~hydrated => (localStorage = savedAtStart /\ firstWrite = NoWrite)
  /\ firstWrite = NoWrite => localStorage = savedAtStart
  /\ (firstWrite # NoWrite /\ savedAtStart.kind = "json") =>
       \A k \in SavedKeys \cap DOMAIN savedAtStart.value :
         firstWrite.value[k] = savedAtStart.value[k]

\* C25 witness: the item held a history, measurements, progress and an
\* override; the first write has happened and a later change has been saved
\* over it.
C25_Witness ==
  /\ savedAtStart.kind = "json"
  /\ savedAtStart.value.workouts = SavedWorkouts
  /\ savedAtStart.value.measurements = SomeMeasurements
  /\ savedAtStart.value.progress = SomeProgress
  /\ "muscleGroupOverrides" \in DOMAIN savedAtStart.value
  /\ savedAtStart.value.muscleGroupOverrides = SavedOverrides
  /\ firstWrite = savedAtStart
  /\ localStorage # firstWrite
  /\ localStorage.value.workouts # SavedWorkouts
----------------------------------------------------------------------------
\* Claims: health ingest

\* the request presents exactly the configured token, in the x-health-token
\* header or in the token query parameter
PresentsToken(req) ==
  \/ req.header = Str(HEALTH_INGEST_TOKEN)
  \/ req.query = Str(HEALTH_INGEST_TOKEN)

\* C28: when HEALTH_INGEST_TOKEN is configured, POST /api/health/ingest stores
\* a row in health_ingest only if the request presents exactly that token
\* (x-health-token header or token query parameter); every other request is
\* answered 401 and leaves health_ingest unchanged.
C28_IngestNeedsToken ==
  (HEALTH_INGEST_TOKEN # Unset /\ lastIngest # NoIngest) =>
    /\ health_ingest # lastIngest.rowsBefore => PresentsToken(lastIngest.request)
    /\ lastIngest.status = 200 =>
         /\ PresentsToken(lastIngest.request)
         /\ health_ingest = Append(lastIngest.rowsBefore, lastIngest.row)
    /\ ~PresentsToken(lastIngest.request) =>
         /\ lastIngest.status = 401
         /\ ~lastIngest.ok
         /\ health_ingest = lastIngest.rowsBefore

\* C28 witness: with the token configured, a request with the token in the
\* query was stored, and after it a request with an array holding the token was
\* answered 401.
C28_Witness ==
  /\ HEALTH_INGEST_TOKEN = Secret
  /\ Len(health_ingest) = 1
  /\ lastIngest.request.query = ArrayOf(Secret)
  /\ lastIngest.request.header = UndefinedValue
  /\ lastIngest.status = 401
  /\ lastIngest.rowsBefore = health_ingest
====
